---------------------------- MODULE Spec2Model ----------------------------
(***************************************************************************)
(* A model of the subgraph-pattern mining engine of                        *)
(* lonestar/include/Mining/miner.h (class Miner): the extension            *)
(* generators, the automorphism filters, quick/canonical aggregation.      *)
(*                                                                         *)
(* Embeddings are sequences; the source's positions are 0-based, so        *)
(* get_vertex(emb, i) reads emb[i + 1].  A queue (galois::InsertBag) is    *)
(* modelled as the sequence of its insertions; the claims read it as a     *)
(* multiset.                                                               *)
(***************************************************************************)
EXTENDS Integers, Sequences, FiniteSets, TLC

VARIABLES
    graph,        \* Miner::graph: adjacency, vertex -> set of edge destinations
    work,         \* the embeddings of the current level still to be processed
    queue,        \* the output queue of the current level
    cur,          \* the embedding handed to the most recent extension call
    emitted,      \* what that call pushed into the queue
    level,        \* size of the embeddings in work
    num,          \* galois::GAccumulator<unsigned> of extend_vertex_clique
    need_update,  \* the need_update argument of extend_vertex_clique
    max_size,     \* the max_size argument of extend_edge
    expanded,     \* the positions at which that extend_edge call ran its edge loop
    mode,         \* the run's aggregation: "freq", "freq_bulk" (whole level at once) or "domain"
    phase,        \* the pass of the level that is running
    done,         \* the embeddings the quick aggregation has classified
    qp_map,       \* QpMapFreq / QpMapDomain
    cg_map,       \* CgMapFreq / CgMapDomain
    id_map,       \* UintMap: Quick-Pattern id -> Canonical-Pattern id
    qp_todo,      \* the qp_map entries the canonical pass has not reduced yet
    qp_reg,       \* the Quick-Pattern signatures that have an id, in id order
    cg_reg,       \* the Canonical Patterns that have an id, in id order
    pc,           \* per thread: the entry it is at and its position in canonical_aggregate_each
    slock,        \* galois::substrate::SimpleLock slock: the holder, or NoThread
    qp_local,     \* per thread: the entries of its quick pattern map, in iteration order
    cg_local,     \* per thread: its canonical map
    threshold,    \* Miner::threshold (set_threshold)
    support_map,  \* UintMap: Canonical-Pattern id -> support
    num_frequent, \* what the level's support_count call returned
    out_queue,    \* the output queue of the level's filter
    filt,         \* the filter the level runs, and on which map
    filter_at,    \* the position in done of the next embedding to filter
    aborted,      \* the run was ended by a failed assert or an uncaught exception
    motif_map,    \* Map3Motif: 0 -> triangles, 1 -> three-chains
    agg_at,       \* the position in queue of the next embedding for aggregate_motif_each
    simple_agg,   \* SimpleMap: embedding -> how often it was seen
    des_graph,    \* the DES graph: node -> the destinations of its out-edges
    locks,        \* DESunorderedParaMeter::locks
    currWorklist, \* DESunorderedParaMeter::currWorklist
    nextWorklist, \* DESunorderedParaMeter::nextWorklist
    onWlFlags,    \* runLoop: onWlFlags
    step,         \* DESunorderedParaMeter::step
    numActivities,\* DESunorderedParaMeter::numActivities
    wlsize,       \* DESunorderedParaMeter::wlsize
    activeNode,   \* runLoop: the node taken from currWorklist, or NoNode
    pending,      \* per simulation object: it has pending events (SimObject::isActive)
    sent,         \* the simulate calls so far that left some object with pending events
    des_pc,       \* the position of runLoop
    executed,     \* the nodes whose activity ran in the current step
    aborts,       \* the nodes that were aborted and have not been executed since
    cmp_one,      \* the first argument of a compare call
    cmp_other,    \* the second argument of that call
    compared      \* <<r>> when the compare call returned r, <<>> before the call

\* the state of the aggregation passes
aggVars == <<mode, phase, done, qp_map, cg_map, id_map, qp_todo, qp_reg, cg_reg>>

\* the state of the threads that reduce quick patterns concurrently
thrVars == <<pc, slock, qp_local, cg_local>>

\* the state of support counting and filtering
supVars == <<threshold, support_map, num_frequent, out_queue, filt, filter_at, aborted>>

\* the state of motif counting
motVars == <<motif_map, agg_at>>

\* the state of clique counting
clqVars == <<simple_agg>>

\* the state of the discrete event simulation
desVars == <<des_graph, locks, currWorklist, nextWorklist, onWlFlags, step,
             numActivities, wlsize, activeNode, pending, sent, des_pc,
             executed, aborts>>

\* the state of an edge comparison
cmpVars == <<cmp_one, cmp_other, compared>>

vars == <<graph, work, queue, cur, emitted, level, num, need_update,
          max_size, expanded, aggVars, thrVars, supVars, motVars,
          clqVars, desVars, cmpVars>>

---------------------------------------------------------------------------
(* Bounds *)

\* number of vertices of the input graph; vertex ids are 0 .. NumV-1
NumV == 4

Vertices == 0 .. (NumV - 1)

\* the width of a vertex id and of int, scaled down from 32 bits
IdBits == 4

\* the longest edge embedding that is extended further, in elements
MaxEdgeLen == 4

\* the longest edge embedding of a mining run (extension and aggregation)
MaxAggLen == 4

\* the largest number of edges of the input graph of a mining run
MaxEdges == 3

\* the largest threshold of a mining run
MaxThreshold == 2

\* the unordered vertex pairs, as ascending pairs
Pairs == {p \in Vertices \X Vertices : p[1] < p[2]}

---------------------------------------------------------------------------
(* Generic helpers *)

RECURSIVE SetToSeq(_)
\* the elements of a set of integers in ascending order
SetToSeq(S) ==
    IF S = {} THEN <<>>
    ELSE LET m == CHOOSE x \in S : \A y \in S : x <= y
         IN  <<m>> \o SetToSeq(S \ {m})

\* the elements of a sequence
Range(s) == {s[k] : k \in DOMAIN s}

\* how often x occurs in the sequence s
Copies(s, x) == Cardinality({k \in DOMAIN s : s[k] = x})

\* the adjacency of the simple undirected graph with edge set E
GraphOf(E) ==
    [v \in Vertices |-> {d \in Vertices : <<v, d>> \in E \/ <<d, v>> \in E}]

\* an empty map (a function with no argument)
EmptyMap == [x \in {} |-> 0]

\* no aggregation pass is running and every map is empty
AggIdle ==
    /\ mode = "none"
    /\ phase = "extend"
    /\ done = <<>>
    /\ qp_map = EmptyMap
    /\ cg_map = EmptyMap
    /\ id_map = EmptyMap
    /\ qp_todo = {}
    /\ qp_reg = <<>>
    /\ cg_reg = <<>>

\* the number of threads that run canonical_aggregate_each concurrently
NumThreads == 2

Threads == 1 .. NumThreads

\* the value of slock when no thread holds it
NoThread == 0

\* no thread is running
ThrIdle ==
    /\ pc = [t \in Threads |-> [at |-> 1, step |-> "done"]]
    /\ slock = NoThread
    /\ qp_local = [t \in Threads |-> <<>>]
    /\ cg_local = [t \in Threads |-> EmptyMap]

\* no support has been counted and no filter is running
SupIdle ==
    /\ threshold = 1
    /\ support_map = EmptyMap
    /\ num_frequent = 0
    /\ out_queue = <<>>
    /\ filt = "none"
    /\ filter_at = 1
    /\ aborted = FALSE

\* no motif has been counted
MotIdle ==
    /\ motif_map = EmptyMap
    /\ agg_at = 1

\* no clique has been counted
ClqIdle == simple_agg = EmptyMap

\* the value of activeNode when no node is being processed
NoNode == 0

\* no simulation is running
DesIdle ==
    /\ des_graph = EmptyMap
    /\ locks = EmptyMap
    /\ currWorklist = <<>>
    /\ nextWorklist = <<>>
    /\ onWlFlags = EmptyMap
    /\ step = 0
    /\ numActivities = 0
    /\ wlsize = 0
    /\ activeNode = NoNode
    /\ pending = EmptyMap
    /\ sent = 0
    /\ des_pc = "none"
    /\ executed = {}
    /\ aborts = {}

\* no edge has been compared
CmpIdle ==
    /\ cmp_one = <<0, 0>>
    /\ cmp_other = <<0, 0>>
    /\ compared = <<>>

---------------------------------------------------------------------------
(* Graph access and embeddings *)

\* graph->edges(id) with getEdgeDst: the destinations, in adjacency order
edges(id) == SetToSeq(graph[id])

\* Miner::degrees, filled by degree_counting
degrees == [v \in Vertices |-> Cardinality(graph[v])]

get_vertex(emb, i) == emb[i + 1]

push_back(emb, x) == Append(emb, x)

\* mutant: the retraction after queue.push_back is missing
pop_back_missing(emb) == emb

pop_back(emb) == SubSeq(emb, 1, Len(emb) - 1)

\* scans the adjacency of the endpoint of smaller degree
is_connected(from, to) ==
    IF degrees[from] < degrees[to]
    THEN \E k \in DOMAIN edges(from) : edges(from)[k] = to
    ELSE \E k \in DOMAIN edges(to) : edges(to)[k] = from

---------------------------------------------------------------------------
(* Vertex-induced motif extension *)

\* mutant: the extension from position 1 does not test the connection of the
\* candidate to position 0
is_vertexInduced_automorphism_noconn(emb, idx, src, dst) ==
    LET n == Len(emb)
        general ==
            LET conn  == {i \in 0 .. (n - 1) : is_connected(get_vertex(emb, i), dst)}
                first == IF conn = {} THEN n - 1
                         ELSE CHOOSE i \in conn : \A j \in conn : i <= j
            IN  \E i \in (first + 1) .. (n - 1) : dst < get_vertex(emb, i)
    IN  IF dst <= get_vertex(emb, 0) THEN TRUE
        ELSE IF \E i \in 1 .. (n - 1) : dst = get_vertex(emb, i) THEN TRUE
        ELSE IF idx = 0 /\ (\E i \in 1 .. (n - 1) : dst < get_vertex(emb, 1)) THEN TRUE
        ELSE IF idx = 0 /\ is_connected(get_vertex(emb, 1), dst) THEN FALSE
        ELSE IF idx = 1
             THEN \E i \in 2 .. (n - 1) : dst < get_vertex(emb, 1)
        ELSE general

is_vertexInduced_automorphism(emb, idx, src, dst) ==
    LET n == Len(emb)
        general ==
            LET conn  == {i \in 0 .. (n - 1) : is_connected(get_vertex(emb, i), dst)}
                first == IF conn = {} THEN n - 1
                         ELSE CHOOSE i \in conn : \A j \in conn : i <= j
            IN  \E i \in (first + 1) .. (n - 1) : dst < get_vertex(emb, i)
    IN  IF dst <= get_vertex(emb, 0) THEN TRUE
        ELSE IF \E i \in 1 .. (n - 1) : dst = get_vertex(emb, i) THEN TRUE
        ELSE IF idx = 0 /\ (\E i \in 1 .. (n - 1) : dst < get_vertex(emb, 1)) THEN TRUE
        ELSE IF idx = 0 /\ is_connected(get_vertex(emb, 1), dst) THEN FALSE
        ELSE IF idx = 1
             THEN IF is_connected(get_vertex(emb, 0), dst) THEN TRUE
                  ELSE \E i \in 2 .. (n - 1) : dst < get_vertex(emb, 1)
        ELSE general

RECURSIVE motif_loop(_, _, _, _)
\* the two nested loops of extend_vertex_motif from candidate (i, k) on:
\* i is the position, k the index into edges(src); st = [emb, queue]
motif_loop(st, n, i, k) ==
    IF i >= n THEN st
    ELSE LET src == get_vertex(st.emb, i)
             es  == edges(src)
         IN  IF k > Len(es) THEN motif_loop(st, n, i + 1, 1)
             ELSE LET dst == es[k]
                  IN  IF ~is_vertexInduced_automorphism(st.emb, i, src, dst)
                      THEN LET e1 == push_back(st.emb, dst)
                           IN  motif_loop([emb   |-> pop_back(e1),
                                           queue |-> Append(st.queue, e1)],
                                          n, i, k + 1)
                      ELSE motif_loop(st, n, i, k + 1)

\* what extend_vertex_motif(emb, queue) appends to queue
extend_vertex_motif(emb) ==
    motif_loop([emb |-> emb, queue |-> <<>>], Len(emb), 0, 1).queue

---------------------------------------------------------------------------
(* Motif mining: the 2-vertex embeddings (u,v), u < v, of the edges, then   *)
(* one extend_vertex_motif call per embedding of the level.                 *)

\* the largest motif the miner handles (aggregate_motif_each: n == 3, n == 4)
MotifK == 4

\* the initial embeddings: one per edge, ascending
EdgeEmbeddings(E) == [k \in 1 .. Cardinality(E) |->
    LET p == CHOOSE q \in E :
                Cardinality({r \in E : r[1] < q[1] \/ (r[1] = q[1] /\ r[2] < q[2])}) = k - 1
    IN  <<p[1], p[2]>>]

MotifInit ==
    \E E \in SUBSET Pairs :
        /\ graph = GraphOf(E)
        /\ work = EdgeEmbeddings(E)
        /\ queue = <<>>
        /\ cur = <<>>
        /\ emitted = <<>>
        /\ level = 2
        /\ num = 0
        /\ need_update = TRUE
        /\ max_size = 0
        /\ expanded = <<>>
        /\ AggIdle
        /\ ThrIdle
        /\ SupIdle
        /\ MotIdle
        /\ ClqIdle
        /\ DesIdle
        /\ CmpIdle

MotifExtend ==
    /\ work # <<>>
    /\ cur' = Head(work)
    /\ emitted' = extend_vertex_motif(Head(work))
    /\ queue' = queue \o emitted'
    /\ work' = Tail(work)
    /\ UNCHANGED <<graph, level, num, need_update, max_size, expanded>>
    /\ UNCHANGED aggVars
    /\ UNCHANGED thrVars
    /\ UNCHANGED supVars
    /\ UNCHANGED motVars
    /\ UNCHANGED <<clqVars, desVars, cmpVars>>

\* map[k] += 1 on a Map3Motif: an absent key starts at 0
motif_add(map, k) ==
    IF k \in DOMAIN map THEN [map EXCEPT ![k] = @ + 1] ELSE map @@ (k :> 1)

\* a variant that takes one of the two edges for a triangle
aggregate_motif_each_either(emb, map) ==
    IF Len(emb) = 3
    THEN IF is_connected(get_vertex(emb, 0), get_vertex(emb, 2))
            \/ is_connected(get_vertex(emb, 1), get_vertex(emb, 2))
         THEN motif_add(map, 0)
         ELSE motif_add(map, 1)
    ELSE map

\* aggregate_motif_each(VertexEmbedding, Map3Motif&): the branch for n == 4 is
\* empty
aggregate_motif_each(emb, map) ==
    IF Len(emb) = 3
    THEN IF is_connected(get_vertex(emb, 0), get_vertex(emb, 2))
            /\ is_connected(get_vertex(emb, 1), get_vertex(emb, 2))
         THEN motif_add(map, 0)
         ELSE motif_add(map, 1)
    ELSE map

\* aggregate_motif_each on the next embedding the level emitted
MotifAggregateEach ==
    /\ work = <<>>
    /\ agg_at <= Len(queue)
    /\ motif_map' = aggregate_motif_each(queue[agg_at], motif_map)
    /\ agg_at' = agg_at + 1
    /\ UNCHANGED <<graph, work, queue, cur, emitted, level, num, need_update,
                   max_size, expanded>>
    /\ UNCHANGED aggVars
    /\ UNCHANGED thrVars
    /\ UNCHANGED supVars
    /\ UNCHANGED <<clqVars, desVars, cmpVars>>

\* the level barrier: the queue of this level is the input of the next
MotifNextLevel ==
    /\ work = <<>>
    /\ queue # <<>>
    /\ agg_at > Len(queue)
    /\ level + 1 < MotifK
    /\ work' = queue
    /\ queue' = <<>>
    /\ level' = level + 1
    /\ agg_at' = 1
    /\ UNCHANGED <<graph, cur, emitted, num, need_update, max_size, expanded>>
    /\ UNCHANGED aggVars
    /\ UNCHANGED thrVars
    /\ UNCHANGED supVars
    /\ UNCHANGED motif_map
    /\ UNCHANGED <<clqVars, desVars, cmpVars>>

MotifNext == MotifExtend \/ MotifAggregateEach \/ MotifNextLevel

MotifSpec == MotifInit /\ [][MotifNext]_vars

---------------------------------------------------------------------------
(* Graph-theoretic reference notions, independent of the miner *)

Adjacent(u, v) == v \in graph[u] \/ u \in graph[v]

RECURSIVE Reach(_, _)
\* the vertices of S reachable inside S from the set R
Reach(R, S) ==
    LET R2 == R \cup {v \in S : \E u \in R : Adjacent(u, v)}
    IN  IF R2 = R THEN R ELSE Reach(R2, S)

ConnectedSet(S) == S # {} /\ Reach({CHOOSE v \in S : TRUE}, S) = S

ConnectedSubsets(k) == {S \in SUBSET Vertices : Cardinality(S) = k /\ ConnectedSet(S)}

\* the number of queue entries whose vertex set is S
Occurrences(q, S) == Cardinality({k \in DOMAIN q : Range(q[k]) = S})

\* C1: when extend_vertex_motif has been applied once to every 2-vertex
\* embedding (u,v), u < v, of an edge, every connected 3-vertex subset of the
\* graph has been emitted as exactly one 3-vertex embedding, and nothing else
\* has been emitted.
C1_MotifExactlyOnce ==
    (level = 2 /\ work = <<>>) =>
        /\ \A S \in ConnectedSubsets(3) : Occurrences(queue, S) = 1
        /\ \A k \in DOMAIN queue :
              Len(queue[k]) = 3 /\ Range(queue[k]) \in ConnectedSubsets(3)

\* a level of 2-vertex embeddings has been fully extended and a vertex that is
\* adjacent to both parent vertices (a triangle) as well as one adjacent to
\* only one of them (a chain) were candidates
C1_Witness ==
    /\ level = 2 /\ work = <<>>
    /\ Len(queue) >= 3
    /\ \E k \in DOMAIN queue :
          Adjacent(queue[k][1], queue[k][3]) /\ Adjacent(queue[k][2], queue[k][3])
    /\ \E k \in DOMAIN queue : ~Adjacent(queue[k][1], queue[k][3])
    /\ \E k \in DOMAIN queue : ~Adjacent(queue[k][2], queue[k][3])

---------------------------------------------------------------------------
(* Clique extension *)

\* mutant: the connectivity loop starts at position 1
is_all_connected_from1(dst, emb) ==
    LET n == Len(emb)
    IN  \A i \in 1 .. (n - 2) : is_connected(get_vertex(emb, i), dst)

\* every vertex of emb but the last is tested: the caller took dst from the
\* adjacency of the last one
is_all_connected(dst, emb) ==
    LET n == Len(emb)
    IN  \A i \in 0 .. (n - 2) : is_connected(get_vertex(emb, i), dst)

RECURSIVE clique_loop(_, _, _, _)
\* the loop of extend_vertex_clique over edges(src) from index k on;
\* st = [emb, queue, num]
clique_loop(st, src, upd, k) ==
    LET es == edges(src)
    IN  IF k > Len(es) THEN st
        ELSE LET dst == es[k]
             IN  IF dst > src /\ is_all_connected(dst, st.emb)
                 THEN IF upd
                      THEN LET e1 == push_back(st.emb, dst)
                           IN  clique_loop([emb   |-> pop_back(e1),
                                            queue |-> Append(st.queue, e1),
                                            num   |-> st.num + 1],
                                           src, upd, k + 1)
                      ELSE clique_loop([st EXCEPT !.num = st.num + 1], src, upd, k + 1)
                 ELSE clique_loop(st, src, upd, k + 1)

\* a variant that expands the first vertex of the embedding
extend_vertex_clique_first(emb, upd) ==
    clique_loop([emb |-> emb, queue |-> <<>>, num |-> 0], get_vertex(emb, 0), upd, 1)

\* extend_vertex_clique(emb, queue, num, need_update): what is appended to
\* queue and what is added to num
extend_vertex_clique(emb, upd) ==
    clique_loop([emb |-> emb, queue |-> <<>>, num |-> 0],
                get_vertex(emb, Len(emb) - 1), upd, 1)

---------------------------------------------------------------------------
(* Clique mining: the ascending edge embeddings, then one                   *)
(* extend_vertex_clique call per embedding of the level.                    *)

CliqueInit ==
    \E E \in SUBSET Pairs, upd \in BOOLEAN :
        /\ graph = GraphOf(E)
        /\ work = EdgeEmbeddings(E)
        /\ queue = <<>>
        /\ cur = <<>>
        /\ emitted = <<>>
        /\ level = 2
        /\ num = 0
        /\ need_update = upd
        /\ max_size = 0
        /\ expanded = <<>>
        /\ AggIdle
        /\ ThrIdle
        /\ SupIdle
        /\ MotIdle
        /\ ClqIdle
        /\ DesIdle
        /\ CmpIdle

CliqueExtend ==
    /\ work # <<>>
    /\ LET r == extend_vertex_clique(Head(work), need_update)
       IN  /\ emitted' = r.queue
           /\ queue' = queue \o r.queue
           /\ num' = num + r.num
    /\ cur' = Head(work)
    /\ work' = Tail(work)
    /\ UNCHANGED <<graph, level, need_update, max_size, expanded>>
    /\ UNCHANGED aggVars
    /\ UNCHANGED thrVars
    /\ UNCHANGED supVars
    /\ UNCHANGED motVars
    /\ UNCHANGED <<clqVars, desVars, cmpVars>>

CliqueNextLevel ==
    /\ work = <<>>
    /\ queue # <<>>
    /\ work' = queue
    /\ queue' = <<>>
    /\ level' = level + 1
    /\ UNCHANGED <<graph, cur, emitted, num, need_update, max_size, expanded>>
    /\ UNCHANGED aggVars
    /\ UNCHANGED thrVars
    /\ UNCHANGED supVars
    /\ UNCHANGED motVars
    /\ UNCHANGED <<clqVars, desVars, cmpVars>>

CliqueNext == CliqueExtend \/ CliqueNextLevel

CliqueSpec == CliqueInit /\ [][CliqueNext]_vars

IsClique(S) == \A u \in S, v \in S : u # v => Adjacent(u, v)

\* the k-cliques of the graph, each as its strictly ascending vertex sequence
AscCliques(k) ==
    {SetToSeq(S) : S \in {T \in SUBSET Vertices : Cardinality(T) = k /\ IsClique(T)}}

\* the candidates the claim says are accepted for emb
CliqueAccepted(emb) ==
    {dst \in Vertices :
        /\ dst \in graph[emb[Len(emb)]]
        /\ dst > emb[Len(emb)]
        /\ \A i \in DOMAIN emb : Adjacent(emb[i], dst)}

RECURSIVE CliquesUpTo(_)
\* the number of cliques of the sizes 3 .. k
CliquesUpTo(k) == IF k < 3 THEN 0 ELSE Cardinality(AscCliques(k)) + CliquesUpTo(k - 1)

\* C2: extend_vertex_clique accepts dst iff dst is a neighbour of the last
\* vertex, greater than it and connected to every vertex of the embedding; num
\* counts every accepted candidate, queued or not; starting from the ascending
\* edges every k-clique is emitted exactly once, as its ascending sequence,
\* and only cliques are emitted.
C2_CliqueExtension ==
    /\ cur # <<>> =>
          /\ need_update =>
                /\ Range(emitted) = {Append(cur, d) : d \in CliqueAccepted(cur)}
                /\ Len(emitted) = Cardinality(CliqueAccepted(cur))
          /\ ~need_update => emitted = <<>>
    /\ num = CliquesUpTo(level)
             + Cardinality({c \in AscCliques(level + 1) :
                               SubSeq(c, 1, level) \notin Range(work)})
    /\ (need_update /\ work = <<>>) =>
          /\ Range(queue) = AscCliques(level + 1)
          /\ \A c \in AscCliques(level + 1) : Copies(queue, c) = 1

\* a 4-clique has been emitted from a 3-clique parent, and in another run a
\* clique was counted without being queued
C2_Witness ==
    \/ /\ need_update /\ level = 3 /\ work = <<>> /\ Len(queue) >= 1
       /\ num >= 5
    \/ /\ ~need_update /\ work = <<>> /\ num >= 2 /\ queue = <<>>

---------------------------------------------------------------------------
(* Edge embeddings: a sequence of elements [vid, his]; his is the position  *)
(* of the element the vertex was reached from (ElementType's labels are 0   *)
(* without ENABLE_LABEL).                                                  *)

edge_get_vertex(emb, i) == emb[i + 1].vid

get_history(emb, i) == emb[i + 1].his

\* the conversion of an unsigned difference to int: two's complement
ToInt(x) ==
    LET m == x % (2 ^ IdBits)
    IN  IF m >= 2 ^ (IdBits - 1) THEN m - 2 ^ IdBits ELSE m

getEdge(emb, index) ==
    <<edge_get_vertex(emb, get_history(emb, index)), edge_get_vertex(emb, index)>>

swap(pair) == IF pair[1] > pair[2] THEN <<pair[2], pair[1]>> ELSE pair

compare(oneEdge, otherEdge) ==
    LET a == swap(oneEdge)
        b == swap(otherEdge)
    IN  IF a[1] = b[1] THEN ToInt(a[2] - b[2]) ELSE ToInt(a[1] - b[1])

\* mutant: a candidate equal to a later edge is not rejected (cmp < 0)
is_automorphism_strict(emb, history, src, dst, vertex_existed) ==
    IF dst < edge_get_vertex(emb, 0) THEN TRUE
    ELSE IF dst = edge_get_vertex(emb, get_history(emb, history)) THEN TRUE
    ELSE IF vertex_existed /\ src > dst THEN TRUE
    ELSE \E index \in (history + 1) .. (Len(emb) - 1) :
            compare(<<src, dst>>, getEdge(emb, index)) < 0

\* mutant: the descending direction of an edge between two vertices of the
\* embedding is not rejected
is_automorphism_bothdirs(emb, history, src, dst, vertex_existed) ==
    IF dst < edge_get_vertex(emb, 0) THEN TRUE
    ELSE IF dst = edge_get_vertex(emb, get_history(emb, history)) THEN TRUE
    ELSE \E index \in (history + 1) .. (Len(emb) - 1) :
            compare(<<src, dst>>, getEdge(emb, index)) <= 0

is_automorphism(emb, history, src, dst, vertex_existed) ==
    IF dst < edge_get_vertex(emb, 0) THEN TRUE
    ELSE IF dst = edge_get_vertex(emb, get_history(emb, history)) THEN TRUE
    ELSE IF vertex_existed /\ src > dst THEN TRUE
    ELSE \E index \in (history + 1) .. (Len(emb) - 1) :
            compare(<<src, dst>>, getEdge(emb, index)) <= 0

RECURSIVE edge_loop(_, _, _, _, _, _)
\* the loops of extend_edge from position i, edge index k on (k = 0: position
\* i is being entered); st = [emb, queue, set, expanded]
edge_loop(st, maxsz, vertices_set, size, i, k) ==
    IF i >= size THEN st
    ELSE LET id == edge_get_vertex(st.emb, i)
             es == edges(id)
         IN  IF k = 0
             THEN IF id \notin st.set
                  THEN edge_loop([st EXCEPT !.set = st.set \cup {id},
                                            !.expanded = Append(st.expanded, i)],
                                 maxsz, vertices_set, size, i, 1)
                  ELSE edge_loop(st, maxsz, vertices_set, size, i + 1, 0)
             ELSE IF k > Len(es)
             THEN edge_loop(st, maxsz, vertices_set, size, i + 1, 0)
             ELSE LET dst == es[k]
                      vertex_existed == dst \in vertices_set
                      num_vertices == Cardinality(vertices_set)
                                      + (IF vertex_existed THEN 0 ELSE 1)
                  IN  IF num_vertices <= maxsz
                         /\ ~is_automorphism(st.emb, i, id, dst, vertex_existed)
                      THEN LET e1 == push_back(st.emb, [vid |-> dst, his |-> i])
                           IN  edge_loop([st EXCEPT !.emb = pop_back(e1),
                                                    !.queue = Append(st.queue, e1)],
                                         maxsz, vertices_set, size, i, k + 1)
                      ELSE edge_loop(st, maxsz, vertices_set, size, i, k + 1)

\* extend_edge(max_size, emb, queue): what is appended to queue, and the
\* positions that were expanded
extend_edge(maxsz, emb) ==
    edge_loop([emb |-> emb, queue |-> <<>>, set |-> {}, expanded |-> <<>>],
              maxsz, {emb[k].vid : k \in DOMAIN emb}, Len(emb), 0, 0)

---------------------------------------------------------------------------
(* Edge-pattern mining: the single-edge embeddings (u,v), u < v, then one   *)
(* extend_edge call per embedding of the level.                             *)

InitialEdgeEmbeddings(E) ==
    [k \in 1 .. Cardinality(E) |->
        <<[vid |-> EdgeEmbeddings(E)[k][1], his |-> 0],
          [vid |-> EdgeEmbeddings(E)[k][2], his |-> 0]>>]

EdgeInit ==
    \E E \in SUBSET Pairs, m \in 2 .. NumV :
        /\ graph = GraphOf(E)
        /\ work = InitialEdgeEmbeddings(E)
        /\ queue = <<>>
        /\ cur = <<>>
        /\ emitted = <<>>
        /\ level = 2
        /\ num = 0
        /\ need_update = TRUE
        /\ max_size = m
        /\ expanded = <<>>
        /\ AggIdle
        /\ ThrIdle
        /\ SupIdle
        /\ MotIdle
        /\ ClqIdle
        /\ DesIdle
        /\ CmpIdle

EdgeExtend ==
    /\ work # <<>>
    /\ LET r == extend_edge(max_size, Head(work))
       IN  /\ emitted' = r.queue
           /\ queue' = queue \o r.queue
           /\ expanded' = r.expanded
    /\ cur' = Head(work)
    /\ work' = Tail(work)
    /\ UNCHANGED <<graph, level, num, need_update, max_size>>
    /\ UNCHANGED aggVars
    /\ UNCHANGED thrVars
    /\ UNCHANGED supVars
    /\ UNCHANGED motVars
    /\ UNCHANGED <<clqVars, desVars, cmpVars>>

EdgeNextLevel ==
    /\ work = <<>>
    /\ queue # <<>>
    /\ level < MaxEdgeLen
    /\ work' = queue
    /\ queue' = <<>>
    /\ level' = level + 1
    /\ UNCHANGED <<graph, cur, emitted, num, need_update, max_size, expanded>>
    /\ UNCHANGED aggVars
    /\ UNCHANGED thrVars
    /\ UNCHANGED supVars
    /\ UNCHANGED motVars
    /\ UNCHANGED <<clqVars, desVars, cmpVars>>

EdgeNext == EdgeExtend \/ EdgeNextLevel

EdgeSpec == EdgeInit /\ [][EdgeNext]_vars

\* the vertex ids of an edge embedding
Vids(emb) == {emb[k].vid : k \in DOMAIN emb}

\* the positions extend_edge expands: the first occurrence of each vertex
FirstPositions(emb) ==
    {i \in 0 .. (Len(emb) - 1) :
        \A j \in 0 .. (i - 1) : edge_get_vertex(emb, j) # edge_get_vertex(emb, i)}

\* C3: every embedding extend_edge emits is the input plus one appended
\* element (dst, history i), i the first position of the extending vertex and
\* dst one of its neighbours; every distinct vertex of the input is expanded
\* exactly once; an emitted embedding has at most max_size distinct vertices;
\* candidates never accumulate.
C3_EdgeExtensionReverted ==
    cur # <<>> =>
        /\ \A k \in DOMAIN emitted :
              LET e  == emitted[k]
                  el == e[Len(e)]
              IN  /\ Len(e) = Len(cur) + 1
                  /\ SubSeq(e, 1, Len(cur)) = cur
                  /\ el.his \in FirstPositions(cur)
                  /\ el.vid \in graph[edge_get_vertex(cur, el.his)]
                  /\ Cardinality(Vids(e)) <= max_size
        /\ \A v \in Vids(cur) :
              Cardinality({k \in DOMAIN expanded :
                              edge_get_vertex(cur, expanded[k]) = v}) = 1
        /\ \A k \in DOMAIN expanded : expanded[k] \in FirstPositions(cur)

\* an embedding with a repeated vertex was extended and the one call emitted
\* several candidates
C3_Witness ==
    /\ cur # <<>>
    /\ Cardinality(Vids(cur)) < Len(cur)
    /\ Len(emitted) >= 2

---------------------------------------------------------------------------
(* The order on edges the filter is specified with *)

Norm(e) == IF e[1] <= e[2] THEN e ELSE <<e[2], e[1]>>

\* a is less-or-equal to b: normalized, then lexicographic
LexLeq(a, b) ==
    \/ Norm(a)[1] < Norm(b)[1]
    \/ Norm(a)[1] = Norm(b)[1] /\ Norm(a)[2] <= Norm(b)[2]

\* the candidates extend_edge hands to is_automorphism for emb: <<h, src, dst>>
EdgeCandidates(emb) ==
    {c \in FirstPositions(emb) \X Vertices \X Vertices :
        c[2] = edge_get_vertex(emb, c[1]) /\ c[3] \in graph[c[2]]}

\* the candidate passes the first three checks of is_automorphism
PassesFirstThree(emb, c) ==
    /\ ~(c[3] < edge_get_vertex(emb, 0))
    /\ c[3] # edge_get_vertex(emb, get_history(emb, c[1]))
    /\ ~(c[3] \in Vids(emb) /\ c[2] > c[3])

EdgeRejected(emb, c) == is_automorphism(emb, c[1], c[2], c[3], c[3] \in Vids(emb))

LaterPositions(emb, c) == (c[1] + 1) .. (Len(emb) - 1)

\* C4 as claimed: a candidate that passes the first three checks is rejected
\* iff some later edge is less-or-equal to the candidate edge.
C4_Original ==
    cur # <<>> =>
        \A c \in EdgeCandidates(cur) :
            PassesFirstThree(cur, c) =>
                (EdgeRejected(cur, c) <=>
                    \E index \in LaterPositions(cur, c) :
                        LexLeq(getEdge(cur, index), <<c[2], c[3]>>))

\* C4 (amended): a candidate that passes the first three checks is rejected
\* iff the candidate edge is less-or-equal to some edge of the embedding at a
\* position greater than h, in the normalized lexicographic order; otherwise
\* it is accepted.
C4_LastClause ==
    cur # <<>> =>
        \A c \in EdgeCandidates(cur) :
            PassesFirstThree(cur, c) =>
                (EdgeRejected(cur, c) <=>
                    \E index \in LaterPositions(cur, c) :
                        LexLeq(<<c[2], c[3]>>, getEdge(cur, index)))

\* the last clause decides: among the candidates that pass the first three
\* checks, one is rejected for a later edge that is greater, one for a later
\* edge equal to it, and one is accepted although a later edge is smaller
C4_Witness ==
    /\ cur # <<>>
    /\ \E c \in EdgeCandidates(cur) :
          /\ PassesFirstThree(cur, c) /\ EdgeRejected(cur, c)
          /\ \A index \in LaterPositions(cur, c) :
                Norm(getEdge(cur, index)) # Norm(<<c[2], c[3]>>)
    /\ \E c \in EdgeCandidates(cur) :
          /\ PassesFirstThree(cur, c) /\ EdgeRejected(cur, c)
          /\ \E index \in LaterPositions(cur, c) :
                Norm(getEdge(cur, index)) = Norm(<<c[2], c[3]>>)
    /\ \E c \in EdgeCandidates(cur) :
          /\ PassesFirstThree(cur, c) /\ ~EdgeRejected(cur, c)
          /\ LaterPositions(cur, c) # {}

---------------------------------------------------------------------------
(* Both automorphism filters under one specification: a run is a motif run  *)
(* (max_size = 0, vertex embeddings) or an edge-pattern run.                *)

AutoInit == MotifInit \/ EdgeInit

AutoNext ==
    \/ max_size = 0 /\ MotifNext
    \/ max_size > 0 /\ EdgeNext

AutoSpec == AutoInit /\ [][AutoNext]_vars

\* the automorphisms of the graph that fix every vertex of F
AutomorphismsFixing(F) ==
    {f \in [Vertices -> Vertices] :
        /\ \A u \in Vertices, v \in Vertices : u # v => f[u] # f[v]
        /\ \A u \in Vertices, v \in Vertices : (v \in graph[u]) <=> (f[v] \in graph[f[u]])
        /\ \A u \in F : f[u] = u}

\* the candidates extend_vertex_motif hands to the filter: <<idx, src, dst>>
MotifCandidates(emb) ==
    {c \in (0 .. (Len(emb) - 1)) \X Vertices \X Vertices :
        c[2] = get_vertex(emb, c[1]) /\ c[3] \in graph[c[2]]}

MotifRejected(emb, c) == is_vertexInduced_automorphism(emb, c[1], c[2], c[3])

---------------------------------------------------------------------------
(* Quick Patterns.  quick_pattern.h is not part of the sources at hand; the *)
(* signature and its id follow the specification: the signature keeps the   *)
(* shape and the history of the embedding and renames the vertices 1, 2, .. *)
(* in the order of their first appearance (readGraph reads them so); a      *)
(* signature gets the next integer id when it is first created and keeps it.*)

\* the new name of vertex v of emb
NewVid(emb, v) ==
    LET p == CHOOSE q \in DOMAIN emb :
                emb[q].vid = v /\ \A r \in 1 .. (q - 1) : emb[r].vid # v
    IN  Cardinality({emb[r].vid : r \in 1 .. p})

quick_key(emb) ==
    [j \in DOMAIN emb |-> [vid |-> NewVid(emb, emb[j].vid), his |-> emb[j].his]]

\* the id of pattern key under the registry reg: its index, the next one if new
IdIn(reg, key) ==
    IF \E k \in DOMAIN reg : reg[k] = key
    THEN CHOOSE k \in DOMAIN reg : reg[k] = key
    ELSE Len(reg) + 1

Register(reg, key) ==
    IF \E k \in DOMAIN reg : reg[k] = key THEN reg ELSE Append(reg, key)

\* QPattern qp(emb): the pattern object, with get_id()
QPattern(emb, reg) == [key |-> quick_key(emb), id |-> IdIn(reg, quick_key(emb))]

\* the value of an embedding's qp id before any set_qpid
NoId == 0

---------------------------------------------------------------------------
(* Quick aggregation.  A map is a function from the pattern (its key) to    *)
(* [id, val]: id is get_id() of the stored key object, val the mapped value.*)

\* a variant that stores 1 again for a pattern already in the map
quick_aggregate_each_freq_reset(emb, m, reg) ==
    LET qp == QPattern(emb, reg)
    IN  IF qp.key \in DOMAIN m
        THEN [qp_map |-> [m EXCEPT ![qp.key].val = 1], qpid |-> qp.id]
        ELSE [qp_map |-> m @@ (qp.key :> [id |-> qp.id, val |-> 1]), qpid |-> qp.id]

\* a variant that sets the qp id only when the pattern is new to the map
quick_aggregate_each_freq_noset(emb, m, reg) ==
    LET qp == QPattern(emb, reg)
    IN  IF qp.key \in DOMAIN m
        THEN [qp_map |-> [m EXCEPT ![qp.key].val = @ + 1], qpid |-> NoId]
        ELSE [qp_map |-> m @@ (qp.key :> [id |-> qp.id, val |-> 1]), qpid |-> qp.id]

\* quick_aggregate_each(EdgeEmbedding&, QpMapFreq&): the new map and the qp id
\* set on the embedding
quick_aggregate_each_freq(emb, m, reg) ==
    LET qp == QPattern(emb, reg)
    IN  IF qp.key \in DOMAIN m
        THEN [qp_map |-> [m EXCEPT ![qp.key].val = @ + 1], qpid |-> qp.id]
        ELSE [qp_map |-> m @@ (qp.key :> [id |-> qp.id, val |-> 1]), qpid |-> qp.id]

\* a variant that fills the slot sets only for a pattern new to the map
quick_aggregate_each_domain_firstonly(emb, m, reg) ==
    LET qp      == QPattern(emb, reg)
        existed == qp.key \in DOMAIN m
    IN  [qp_map |-> IF existed THEN m
                    ELSE m @@ (qp.key :> [id  |-> qp.id,
                                          val |-> [i \in 1 .. Len(emb) |->
                                                      {edge_get_vertex(emb, i - 1)}]]),
         qpid   |-> IF existed THEN m[qp.key].id ELSE qp.id]

\* quick_aggregate_each(EdgeEmbedding&, QpMapDomain&)
quick_aggregate_each_domain(emb, m, reg) ==
    LET qp      == QPattern(emb, reg)
        existed == qp.key \in DOMAIN m
        m1      == IF existed THEN m
                   ELSE m @@ (qp.key :> [id  |-> qp.id,
                                         val |-> [i \in 1 .. Len(emb) |-> {}]])
        sets    == m1[qp.key].val
    IN  [qp_map |-> [m1 EXCEPT ![qp.key].val =
                        [i \in DOMAIN sets |->
                            IF i <= Len(emb) THEN sets[i] \cup {edge_get_vertex(emb, i - 1)}
                            ELSE sets[i]]],
         qpid   |-> IF existed THEN m[qp.key].id ELSE qp.id]

RECURSIVE quick_aggregate(_, _, _)
\* quick_aggregate(EdgeEmbeddingQueue&, QpMapFreq&): the whole queue, no qp id
\* is recorded; returns [qp_map, reg]
quick_aggregate(q, m, reg) ==
    IF q = <<>> THEN [qp_map |-> m, reg |-> reg]
    ELSE LET qp == QPattern(Head(q), reg)
             m1 == IF qp.key \in DOMAIN m
                   THEN [m EXCEPT ![qp.key].val = @ + 1]
                   ELSE m @@ (qp.key :> [id |-> qp.id, val |-> 1])
         IN  quick_aggregate(Tail(q), m1, Register(reg, qp.key))

---------------------------------------------------------------------------
(* A mining run on edge embeddings, level by level: quick aggregation of    *)
(* the level's embeddings, canonical aggregation of the quick patterns,     *)
(* then extension to the next level.                                        *)

MineInit ==
    \E E \in {F \in SUBSET Pairs : Cardinality(F) <= MaxEdges}, md \in {"freq", "freq_bulk", "domain"},
       thr \in 1 .. MaxThreshold :
        /\ graph = GraphOf(E)
        /\ work = <<>>
        /\ queue = InitialEdgeEmbeddings(E)
        /\ cur = <<>>
        /\ emitted = <<>>
        /\ level = 2
        /\ num = 0
        /\ need_update = TRUE
        /\ max_size = NumV
        /\ expanded = <<>>
        /\ mode = md
        /\ phase = "quick"
        /\ done = <<>>
        /\ qp_map = EmptyMap
        /\ cg_map = EmptyMap
        /\ id_map = EmptyMap
        /\ qp_todo = {}
        /\ qp_reg = <<>>
        /\ cg_reg = <<>>
        /\ ThrIdle
        /\ threshold = thr
        /\ support_map = EmptyMap
        /\ num_frequent = 0
        /\ out_queue = <<>>
        /\ filt = "none"
        /\ filter_at = 1
        /\ aborted = FALSE
        /\ MotIdle
        /\ ClqIdle
        /\ DesIdle
        /\ CmpIdle

\* quick_aggregate_each on the next embedding of the level
QuickAggregateEach ==
    /\ phase = "quick"
    /\ mode # "freq_bulk"
    /\ queue # <<>>
    /\ LET emb == Head(queue)
           r   == IF mode = "freq"
                  THEN quick_aggregate_each_freq(emb, qp_map, qp_reg)
                  ELSE quick_aggregate_each_domain(emb, qp_map, qp_reg)
       IN  /\ qp_map' = r.qp_map
           /\ done' = Append(done, [emb |-> emb, qpid |-> r.qpid, each |-> TRUE])
           /\ qp_reg' = Register(qp_reg, quick_key(emb))
    /\ queue' = Tail(queue)
    /\ UNCHANGED <<graph, work, cur, emitted, level, num, need_update, max_size, expanded>>
    /\ UNCHANGED <<mode, phase, cg_map, id_map, qp_todo, cg_reg>>
    /\ UNCHANGED thrVars
    /\ UNCHANGED supVars
    /\ UNCHANGED motVars
    /\ UNCHANGED <<clqVars, desVars, cmpVars>>

\* quick_aggregate on the whole level at once (frequency mode)
QuickAggregate ==
    /\ phase = "quick"
    /\ mode = "freq_bulk"
    /\ done = <<>>
    /\ queue # <<>>
    /\ LET r == quick_aggregate(queue, qp_map, qp_reg)
       IN  /\ qp_map' = r.qp_map
           /\ qp_reg' = r.reg
    /\ done' = [k \in DOMAIN queue |-> [emb |-> queue[k], qpid |-> NoId, each |-> FALSE]]
    /\ queue' = <<>>
    /\ UNCHANGED <<graph, work, cur, emitted, level, num, need_update, max_size, expanded>>
    /\ UNCHANGED <<mode, phase, cg_map, id_map, qp_todo, cg_reg>>
    /\ UNCHANGED thrVars
    /\ UNCHANGED supVars
    /\ UNCHANGED motVars
    /\ UNCHANGED <<clqVars, desVars, cmpVars>>

\* the quick pass of the level is complete: the canonical pass starts
QuickDone ==
    /\ phase = "quick"
    /\ queue = <<>>
    /\ done # <<>>
    /\ phase' = "canonical"
    /\ qp_todo' = DOMAIN qp_map
    /\ UNCHANGED <<graph, work, queue, cur, emitted, level, num, need_update,
                   max_size, expanded>>
    /\ UNCHANGED <<mode, done, qp_map, cg_map, id_map, qp_reg, cg_reg>>
    /\ UNCHANGED thrVars
    /\ UNCHANGED supVars
    /\ UNCHANGED motVars
    /\ UNCHANGED <<clqVars, desVars, cmpVars>>

---------------------------------------------------------------------------
(* The canonical-form oracle (bliss) and CanonicalGraph (canonical_graph.h) *)
(* are not part of the sources at hand; they follow the specification: the  *)
(* oracle relabels the pattern graph so that isomorphic graphs get the same *)
(* result, and the Canonical Pattern knows for each of its slots the index  *)
(* of the Quick-Pattern element that fills it.                              *)

\* readGraph: the vertices and the undirected edges of the pattern graph
PatternSize(q) == Cardinality({q[j].vid : j \in DOMAIN q})

\* a variant that takes the element before as the source of every edge
PatternEdges_chain(q) == {Norm(<<q[j - 1].vid, q[j].vid>>) : j \in 2 .. Len(q)}

PatternEdges(q) == {Norm(<<q[q[j].his + 1].vid, q[j].vid>>) : j \in 2 .. Len(q)}

RECURSIVE Relabellings(_)
\* the permutations of 1 .. k
Relabellings(k) ==
    IF k = 0 THEN {<<>>}
    ELSE {[a \in 1 .. k |-> IF a < i THEN f[a] ELSE IF a = i THEN k ELSE f[a - 1]] :
             f \in Relabellings(k - 1), i \in 1 .. k}

Relabel(S, f) == {Norm(<<f[e[1]], f[e[2]]>>) : e \in S}

RECURSIVE GraphCode(_)
\* a number that identifies an edge set
GraphCode(S) ==
    IF S = {} THEN 0
    ELSE LET e == CHOOSE x \in S : TRUE
         IN  2 ^ ((e[1] - 1) * NumV + (e[2] - 1)) + GraphCode(S \ {e})

\* the relabelling of R whose graph has the code c
WithCode(R, E, c) == CHOOSE f \in R : GraphCode(Relabel(E, f)) = c

\* the least code of the relabellings R of the graph E
LeastCode(R, E, codes) == CHOOSE c \in codes : \A d \in codes : c <= d

\* canonical_form: the relabelling with the least code
canonical_form(q) ==
    LET R == Relabellings(PatternSize(q))
        E == PatternEdges(q)
    IN  WithCode(R, E, LeastCode(R, E, {GraphCode(Relabel(E, f)) : f \in R}))

\* the canonical pattern of q: the relabelled graph
canonical_key(q) ==
    [n |-> PatternSize(q), edges |-> Relabel(PatternEdges(q), canonical_form(q))]

\* the place of element j (0-based) of q among the canonical slots under the
\* relabelling f: the elements ordered by the canonical name of their vertex,
\* then of their source
SlotOf(q, f, j) ==
    LET d(x) == <<f[q[x + 1].vid], IF x = 0 THEN 0 ELSE f[q[q[x + 1].his + 1].vid], x>>
        less(a, b) == \/ a[1] < b[1]
                      \/ a[1] = b[1] /\ a[2] < b[2]
                      \/ a[1] = b[1] /\ a[2] = b[2] /\ a[3] < b[3]
    IN  Cardinality({x \in 0 .. (Len(q) - 1) : less(d(x), d(j))})

\* turn_canonical_graph(qp, false): the pattern object with get_id() and
\* get_quick_pattern_index(i) = perm[i + 1]
CPattern(q, f, reg) ==
    LET key == [n |-> PatternSize(q), edges |-> Relabel(PatternEdges(q), f)]
    IN  [key  |-> key,
         id   |-> IdIn(reg, key),
         perm |-> [i \in 1 .. Len(q) |->
                      CHOOSE j \in 0 .. (Len(q) - 1) : SlotOf(q, f, j) = i - 1]]

turn_canonical_graph(q, reg) ==
    CHOOSE cg \in {CPattern(q, cl, reg) : cl \in {canonical_form(q)}} : TRUE

get_quick_pattern_index(cg, i) == cg.perm[i + 1]

---------------------------------------------------------------------------
(* Canonical aggregation *)

\* id_map.insert(std::make_pair(qp_id, cg_id)): an existing entry is kept
map_insert(m, k, v) == IF k \in DOMAIN m THEN m ELSE m @@ (k :> v)

\* the cg_map update of the frequency canonical_aggregate_each: freq is added
\* to the counter of the canonical pattern cg, a new entry starts at freq
add_frequency(cg, freq, cm) ==
    IF cg.key \in DOMAIN cm
    THEN [cm EXCEPT ![cg.key].val = @ + freq]
    ELSE cm @@ (cg.key :> [id |-> cg.id, val |-> freq])

\* the cg_map update of the domain canonical_aggregate_each: a new entry is
\* resized to numDomains, then slot i takes the quick pattern's slot
\* get_quick_pattern_index(i)
union_domains(cg, numDomains, domainSets, cm) ==
    LET cm1 == IF cg.key \in DOMAIN cm THEN cm
               ELSE cm @@ (cg.key :> [id |-> cg.id, val |-> [i \in 1 .. numDomains |-> {}]])
        old == cm1[cg.key].val
    IN  [cm1 EXCEPT ![cg.key].val =
            [i \in DOMAIN old |->
                IF i <= numDomains
                THEN old[i] \cup domainSets[get_quick_pattern_index(cg, i - 1) + 1]
                ELSE old[i]]]

\* a variant that stores freq over the counter of a pattern already in the map
canonical_aggregate_each_freq_overwrite(q, qid, freq, cm, im, reg) ==
    LET cg == turn_canonical_graph(q, reg)
    IN  [id_map |-> map_insert(im, qid, cg.id),
         reg    |-> Register(reg, cg.key),
         cg_map |-> IF cg.key \in DOMAIN cm
                    THEN [cm EXCEPT ![cg.key].val = freq]
                    ELSE cm @@ (cg.key :> [id |-> cg.id, val |-> freq])]

\* a variant that leaves the id map alone
canonical_aggregate_each_freq_noidmap(q, qid, freq, cm, im, reg) ==
    LET cg == turn_canonical_graph(q, reg)
    IN  [id_map |-> im,
         reg    |-> Register(reg, cg.key),
         cg_map |-> IF cg.key \in DOMAIN cm
                    THEN [cm EXCEPT ![cg.key].val = @ + freq]
                    ELSE cm @@ (cg.key :> [id |-> cg.id, val |-> freq])]

\* canonical_aggregate_each(QPattern, Frequency, CgMapFreq&, UintMap&) for the
\* qp_map entry q (stored id qid) with frequency freq
canonical_aggregate_each_freq(q, qid, freq, cm, im, reg) ==
    LET cg == turn_canonical_graph(q, reg)
    IN  [id_map |-> map_insert(im, qid, cg.id),
         reg    |-> Register(reg, cg.key),
         cg_map |-> add_frequency(cg, freq, cm)]

\* a variant that unions slot i of the quick pattern into canonical slot i
canonical_aggregate_each_domain_positional(q, qid, domainSets, cm, im, reg) ==
    LET numDomains == Len(q)
        cg  == turn_canonical_graph(q, reg)
        cm1 == IF cg.key \in DOMAIN cm THEN cm
               ELSE cm @@ (cg.key :> [id |-> cg.id, val |-> [i \in 1 .. numDomains |-> {}]])
        old == cm1[cg.key].val
    IN  [id_map |-> map_insert(im, qid, cg.id),
         reg    |-> Register(reg, cg.key),
         cg_map |-> [cm1 EXCEPT ![cg.key].val =
                        [i \in DOMAIN old |->
                            IF i <= numDomains THEN old[i] \cup domainSets[i] ELSE old[i]]]]

\* canonical_aggregate_each(QPattern, DomainSupport, CgMapDomain&, UintMap&)
canonical_aggregate_each_domain(q, qid, domainSets, cm, im, reg) ==
    LET numDomains == Len(q)
        cg == turn_canonical_graph(q, reg)
    IN  [id_map |-> map_insert(im, qid, cg.id),
         reg    |-> Register(reg, cg.key),
         cg_map |-> union_domains(cg, numDomains, domainSets, cm)]

RECURSIVE canonical_aggregate(_, _, _, _)
\* canonical_aggregate(QpMapFreq, CgMapFreq&): every entry of the map (todo:
\* the entries still to visit); returns [cg_map, reg]
canonical_aggregate(todo, qm, cm, reg) ==
    IF todo = {} THEN [cg_map |-> cm, reg |-> reg]
    ELSE LET q   == CHOOSE x \in todo : TRUE
             cg  == turn_canonical_graph(q, reg)
             cm1 == IF cg.key \in DOMAIN cm
                    THEN [cm EXCEPT ![cg.key].val = @ + qm[q].val]
                    ELSE cm @@ (cg.key :> [id |-> cg.id, val |-> qm[q].val])
         IN  canonical_aggregate(todo \ {q}, qm, cm1, Register(reg, cg.key))

\* canonical_aggregate_each on one entry of qp_map, in any order
CanonicalAggregateEach ==
    /\ phase = "canonical"
    /\ mode # "freq_bulk"
    /\ \E q \in qp_todo :
          /\ LET r == IF mode = "freq"
                      THEN canonical_aggregate_each_freq(q, qp_map[q].id, qp_map[q].val,
                                                         cg_map, id_map, cg_reg)
                      ELSE canonical_aggregate_each_domain(q, qp_map[q].id, qp_map[q].val,
                                                           cg_map, id_map, cg_reg)
             IN  /\ cg_map' = r.cg_map
                 /\ id_map' = r.id_map
                 /\ cg_reg' = r.reg
          /\ qp_todo' = qp_todo \ {q}
    /\ UNCHANGED <<graph, work, queue, cur, emitted, level, num, need_update,
                   max_size, expanded>>
    /\ UNCHANGED <<mode, phase, done, qp_map, qp_reg>>
    /\ UNCHANGED thrVars
    /\ UNCHANGED supVars
    /\ UNCHANGED motVars
    /\ UNCHANGED <<clqVars, desVars, cmpVars>>

\* canonical_aggregate on the whole map at once (frequency mode)
CanonicalAggregate ==
    /\ phase = "canonical"
    /\ mode = "freq_bulk"
    /\ qp_todo = DOMAIN qp_map
    /\ qp_todo # {}
    /\ LET r == canonical_aggregate(qp_todo, qp_map, cg_map, cg_reg)
       IN  /\ cg_map' = r.cg_map
           /\ cg_reg' = r.reg
    /\ qp_todo' = {}
    /\ UNCHANGED <<graph, work, queue, cur, emitted, level, num, need_update,
                   max_size, expanded>>
    /\ UNCHANGED <<mode, phase, done, qp_map, id_map, qp_reg>>
    /\ UNCHANGED thrVars
    /\ UNCHANGED supVars
    /\ UNCHANGED motVars
    /\ UNCHANGED <<clqVars, desVars, cmpVars>>

---------------------------------------------------------------------------
(* Support and filtering.  A filter returns the output queue, the map it    *)
(* was given (operator[] inserts into it) and whether the call ended the    *)
(* run: a failed assert aborts, std::out_of_range from at() is not caught.  *)

RECURSIVE get_support_loop(_, _, _)
\* the loop of get_support from slot j on
get_support_loop(domainSets, j, support) ==
    IF j >= Len(domainSets) THEN support
    ELSE get_support_loop(domainSets, j + 1,
                          IF Cardinality(domainSets[j + 1]) < support
                          THEN Cardinality(domainSets[j + 1])
                          ELSE support)

\* a variant that takes the size of the first slot
get_support_first(domainSets) ==
    IF Len(domainSets) = 0 THEN 2 ^ IdBits - 1 ELSE Cardinality(domainSets[1])

\* get_support(HashIntSets): support starts at the largest unsigned
get_support(domainSets) == get_support_loop(domainSets, 0, 2 ^ IdBits - 1)

RECURSIVE support_count_domain(_, _, _, _, _)
\* support_count(const CgMapDomain, UintMap&): todo are the entries still to
\* visit; returns [support_map, count]
support_count_domain(todo, cm, sm, thr, count) ==
    IF todo = {} THEN [support_map |-> sm, count |-> count]
    ELSE LET c       == CHOOSE x \in todo : TRUE
             support == get_support(cm[c].val)
         IN  support_count_domain(todo \ {c}, cm, map_insert(sm, cm[c].id, support), thr,
                                  IF support >= thr THEN count + 1 ELSE count)

RECURSIVE support_count_freq(_, _, _, _, _)
\* support_count(const CgMapFreq, UintMap&)
support_count_freq(todo, cm, sm, thr, count) ==
    IF todo = {} THEN [support_map |-> sm, count |-> count]
    ELSE LET c       == CHOOSE x \in todo : TRUE
             support == cm[c].val
         IN  support_count_freq(todo \ {c}, cm, map_insert(sm, cm[c].id, support), thr,
                                IF support >= thr THEN count + 1 ELSE count)

\* cg_map[*cf] of a frequency map: an absent pattern is inserted with 0
at_or_zero(cm, cf) ==
    IF cf.key \in DOMAIN cm THEN cm ELSE cm @@ (cf.key :> [id |-> cf.id, val |-> 0])

\* cg_map[*cf] of a domain map: an absent pattern is inserted with no slot
at_or_empty(cm, cf) ==
    IF cf.key \in DOMAIN cm THEN cm ELSE cm @@ (cf.key :> [id |-> cf.id, val |-> <<>>])

\* the slot loop of the domain filters
is_frequent(domainSets, thr) ==
    \A i \in 1 .. Len(domainSets) : ~(Cardinality(domainSets[i]) < thr)

RECURSIVE filter_freq(_, _, _, _, _)
\* filter(EdgeEmbeddingQueue&, CgMapFreq&, EdgeEmbeddingQueue&)
filter_freq(in_queue, cm, thr, out, reg) ==
    IF in_queue = <<>> THEN [out_queue |-> out, cg_map |-> cm, aborted |-> FALSE]
    ELSE LET emb == Head(in_queue)
             cf  == turn_canonical_graph(quick_key(emb), reg)
         IN  IF cf.key \notin DOMAIN cm
             THEN [out_queue |-> out, cg_map |-> cm, aborted |-> TRUE]
             ELSE filter_freq(Tail(in_queue), cm, thr,
                              IF cm[cf.key].val >= thr THEN Append(out, emb) ELSE out, reg)

\* filter_each(EdgeEmbedding&, CgMapFreq&, EdgeEmbeddingQueue&)
filter_each_freq(emb, cm, thr, out, reg) ==
    LET cf  == turn_canonical_graph(quick_key(emb), reg)
        cm1 == at_or_zero(cm, cf)
    IN  [out_queue |-> IF cm1[cf.key].val >= thr THEN Append(out, emb) ELSE out,
         cg_map    |-> cm1,
         aborted   |-> FALSE]

RECURSIVE filter_domain(_, _, _, _, _)
\* filter(EdgeEmbeddingQueue&, CgMapDomain&, EdgeEmbeddingQueue&)
filter_domain(in_queue, cm, thr, out, reg) ==
    IF in_queue = <<>> THEN [out_queue |-> out, cg_map |-> cm, aborted |-> FALSE]
    ELSE LET emb == Head(in_queue)
             cf  == turn_canonical_graph(quick_key(emb), reg)
         IN  IF cf.key \notin DOMAIN cm
             THEN [out_queue |-> out, cg_map |-> cm, aborted |-> TRUE]
             ELSE filter_domain(Tail(in_queue), cm, thr,
                                IF is_frequent(cm[cf.key].val, thr)
                                THEN Append(out, emb) ELSE out, reg)

\* filter_each(EdgeEmbedding&, CgMapDomain&, EdgeEmbeddingQueue&)
filter_each_domain(emb, cm, thr, out, reg) ==
    LET cf  == turn_canonical_graph(quick_key(emb), reg)
        cm1 == at_or_empty(cm, cf)
    IN  [out_queue |-> IF is_frequent(cm1[cf.key].val, thr) THEN Append(out, emb) ELSE out,
         cg_map    |-> cm1,
         aborted   |-> FALSE]

\* a variant that takes the qp id for the cg id
filter_each_id_direct(e, im, sm, thr, out) ==
    IF e.qpid \notin DOMAIN sm THEN [out_queue |-> out, aborted |-> TRUE]
    ELSE [out_queue |-> IF sm[e.qpid] >= thr THEN Append(out, e.emb) ELSE out,
          aborted   |-> FALSE]

\* filter_each(EdgeEmbedding, const UintMap, const UintMap, EdgeEmbeddingQueue&):
\* e is the embedding with its qp id
filter_each_id(e, im, sm, thr, out) ==
    IF e.qpid \notin DOMAIN im THEN [out_queue |-> out, aborted |-> TRUE]
    ELSE IF im[e.qpid] \notin DOMAIN sm THEN [out_queue |-> out, aborted |-> TRUE]
    ELSE [out_queue |-> IF sm[im[e.qpid]] >= thr THEN Append(out, e.emb) ELSE out,
          aborted   |-> FALSE]

RECURSIVE filter_id(_, _, _, _, _)
\* filter(EdgeEmbeddingQueue&, const UintMap, const UintMap, EdgeEmbeddingQueue&)
filter_id(in_queue, im, sm, thr, out) ==
    IF in_queue = <<>> THEN [out_queue |-> out, aborted |-> FALSE]
    ELSE LET e == Head(in_queue)
         IN  IF e.qpid \notin DOMAIN im THEN [out_queue |-> out, aborted |-> TRUE]
             ELSE IF im[e.qpid] \notin DOMAIN sm THEN [out_queue |-> out, aborted |-> TRUE]
             ELSE filter_id(Tail(in_queue), im, sm, thr,
                            IF sm[im[e.qpid]] >= thr THEN Append(out, e.emb) ELSE out)

\* the filters a run of aggregation md can use: the id-based ones need the qp
\* ids and the id map of the each passes
FiltersOf(md) ==
    IF md = "freq_bulk" THEN {"pattern", "pattern_each"}
    ELSE {"id", "id_each", "pattern", "pattern_each"}

\* support_count on the canonical map, then the filter of the level starts
CountSupport ==
    /\ phase = "canonical"
    /\ LET r == IF mode = "domain"
                THEN support_count_domain(DOMAIN cg_map, cg_map, support_map, threshold, 0)
                ELSE support_count_freq(DOMAIN cg_map, cg_map, support_map, threshold, 0)
       IN  /\ support_map' = r.support_map
           /\ num_frequent' = r.count
    /\ phase' = "filter"
    /\ filt' \in FiltersOf(mode)
    /\ filter_at' = 1
    /\ out_queue' = <<>>
    /\ UNCHANGED <<graph, work, queue, cur, emitted, level, num, need_update,
                   max_size, expanded>>
    /\ UNCHANGED <<mode, done, qp_map, cg_map, id_map, qp_todo, qp_reg, cg_reg>>
    /\ UNCHANGED <<threshold, aborted>>
    /\ UNCHANGED thrVars
    /\ UNCHANGED motVars
    /\ UNCHANGED <<clqVars, desVars, cmpVars>>

\* a variant that does not wait for the canonical pass
SupportCount_nobarrier == CountSupport

\* the barrier: support is counted when every quick pattern of the level is
\* reduced
SupportCount ==
    /\ qp_todo = {}
    /\ CountSupport

\* filter_each on the next embedding of the level
FilterEach ==
    /\ phase = "filter"
    /\ filt \in {"id_each", "pattern_each"}
    /\ ~aborted
    /\ filter_at <= Len(done)
    /\ LET e == done[filter_at]
       IN  IF filt = "id_each"
           THEN LET r == filter_each_id(e, id_map, support_map, threshold, out_queue)
                IN  /\ out_queue' = r.out_queue
                    /\ aborted' = r.aborted
                    /\ cg_map' = cg_map
           ELSE LET r == IF mode = "domain"
                         THEN filter_each_domain(e.emb, cg_map, threshold, out_queue, cg_reg)
                         ELSE filter_each_freq(e.emb, cg_map, threshold, out_queue, cg_reg)
                IN  /\ out_queue' = r.out_queue
                    /\ aborted' = r.aborted
                    /\ cg_map' = r.cg_map
    /\ filter_at' = filter_at + 1
    /\ UNCHANGED <<graph, work, queue, cur, emitted, level, num, need_update,
                   max_size, expanded>>
    /\ UNCHANGED <<mode, phase, done, qp_map, id_map, qp_todo, qp_reg, cg_reg>>
    /\ UNCHANGED <<threshold, support_map, num_frequent, filt>>
    /\ UNCHANGED thrVars
    /\ UNCHANGED motVars
    /\ UNCHANGED <<clqVars, desVars, cmpVars>>

\* filter on the whole level at once
Filter ==
    /\ phase = "filter"
    /\ filt \in {"id", "pattern"}
    /\ ~aborted
    /\ filter_at = 1
    /\ done # <<>>
    /\ IF filt = "id"
       THEN LET r == filter_id(done, id_map, support_map, threshold, out_queue)
            IN  /\ out_queue' = r.out_queue
                /\ aborted' = r.aborted
                /\ cg_map' = cg_map
       ELSE LET in_queue == [k \in DOMAIN done |-> done[k].emb]
                r == IF mode = "domain"
                     THEN filter_domain(in_queue, cg_map, threshold, out_queue, cg_reg)
                     ELSE filter_freq(in_queue, cg_map, threshold, out_queue, cg_reg)
            IN  /\ out_queue' = r.out_queue
                /\ aborted' = r.aborted
                /\ cg_map' = r.cg_map
    /\ filter_at' = Len(done) + 1
    /\ UNCHANGED <<graph, work, queue, cur, emitted, level, num, need_update,
                   max_size, expanded>>
    /\ UNCHANGED <<mode, phase, done, qp_map, id_map, qp_todo, qp_reg, cg_reg>>
    /\ UNCHANGED <<threshold, support_map, num_frequent, filt>>
    /\ UNCHANGED thrVars
    /\ UNCHANGED motVars
    /\ UNCHANGED <<clqVars, desVars, cmpVars>>

\* the level is filtered: the embeddings that were kept are extended
FilterDone ==
    /\ phase = "filter"
    /\ ~aborted
    /\ filter_at > Len(done)
    /\ level < MaxAggLen
    /\ phase' = "extend"
    /\ work' = out_queue
    /\ out_queue' = <<>>
    /\ filt' = "none"
    /\ filter_at' = 1
    /\ UNCHANGED <<graph, queue, cur, emitted, level, num, need_update, max_size, expanded>>
    /\ UNCHANGED <<mode, done, qp_map, cg_map, id_map, qp_todo, qp_reg, cg_reg>>
    /\ UNCHANGED <<threshold, support_map, num_frequent, aborted>>
    /\ UNCHANGED thrVars
    /\ UNCHANGED motVars
    /\ UNCHANGED <<clqVars, desVars, cmpVars>>

\* extend_edge on the next embedding of the level
MineExtend ==
    /\ phase = "extend"
    /\ work # <<>>
    /\ LET r == extend_edge(max_size, Head(work))
       IN  /\ emitted' = r.queue
           /\ queue' = queue \o r.queue
           /\ expanded' = r.expanded
    /\ cur' = Head(work)
    /\ work' = Tail(work)
    /\ UNCHANGED <<graph, level, num, need_update, max_size>>
    /\ UNCHANGED aggVars
    /\ UNCHANGED thrVars
    /\ UNCHANGED supVars
    /\ UNCHANGED motVars
    /\ UNCHANGED <<clqVars, desVars, cmpVars>>

\* the level barrier: the new embeddings are aggregated with fresh maps of
\* the level; the id map and the pattern ids live on
MineNextLevel ==
    /\ phase = "extend"
    /\ work = <<>>
    /\ queue # <<>>
    /\ phase' = "quick"
    /\ level' = level + 1
    /\ done' = <<>>
    /\ qp_map' = EmptyMap
    /\ cg_map' = EmptyMap
    /\ UNCHANGED <<graph, work, queue, cur, emitted, num, need_update, max_size, expanded>>
    /\ UNCHANGED <<mode, id_map, qp_todo, qp_reg, cg_reg>>
    /\ UNCHANGED thrVars
    /\ UNCHANGED supVars
    /\ UNCHANGED motVars
    /\ UNCHANGED <<clqVars, desVars, cmpVars>>

MineNext ==
    \/ QuickAggregateEach
    \/ QuickAggregate
    \/ QuickDone
    \/ CanonicalAggregateEach
    \/ CanonicalAggregate
    \/ SupportCount
    \/ FilterEach
    \/ Filter
    \/ FilterDone
    \/ MineExtend
    \/ MineNextLevel

MineSpec == MineInit /\ [][MineNext]_vars


---------------------------------------------------------------------------
(* Properties of the aggregation passes of a mining run *)

FreqMode == mode \in {"freq", "freq_bulk"}

\* the positions in done of the embeddings with the quick pattern key
WithKey(key) == {k \in DOMAIN done : quick_key(done[k].emb) = key}

DoneKeys == {quick_key(done[k].emb) : k \in DOMAIN done}

\* the quick patterns already reduced by the canonical pass of the level
Reduced == IF phase = "quick" THEN {} ELSE DOMAIN qp_map \ qp_todo

\* the reduced quick patterns of the canonical pattern c
ReducedTo(c) == {q \in Reduced : canonical_key(q) = c}

RECURSIVE SumVal(_, _)
\* the sum of the values of the entries S of the map m
SumVal(S, m) ==
    IF S = {} THEN 0
    ELSE LET x == CHOOSE y \in S : TRUE
         IN  m[x].val + SumVal(S \ {x}, m)

\* C6: in frequency mode the quick pattern map of the level has exactly one
\* entry per distinct quick pattern key of the embeddings aggregated so far
\* (one by one or the whole queue at once), and the counter of an entry is
\* the number of those embeddings with its key
C6_QuickFrequencyCounts ==
    FreqMode =>
        /\ DOMAIN qp_map = DoneKeys
        /\ \A key \in DOMAIN qp_map : qp_map[key].val = Cardinality(WithKey(key))

C6_Witness ==
    /\ mode = "freq"
    /\ phase = "quick"
    /\ Cardinality(DOMAIN qp_map) >= 2
    /\ \E key \in DOMAIN qp_map : qp_map[key].val >= 2
    /\ \E key \in DOMAIN qp_map : qp_map[key].val = 1

\* C7: the qp id recorded on an embedding by quick_aggregate_each is the id
\* of the map entry of its quick pattern key and the id a second encoding of
\* the embedding gets; embeddings of one key carry one id, embeddings of
\* different keys different ids
C7_QpIdReuse ==
    \A k \in DOMAIN done :
        done[k].each =>
            /\ quick_key(done[k].emb) \in DOMAIN qp_map
            /\ done[k].qpid = qp_map[quick_key(done[k].emb)].id
            /\ done[k].qpid = QPattern(done[k].emb, qp_reg).id
            /\ \A j \in DOMAIN done :
                  done[j].each =>
                      ((quick_key(done[j].emb) = quick_key(done[k].emb))
                          <=> (done[j].qpid = done[k].qpid))

C7_Witness ==
    /\ mode \in {"freq", "domain"}
    /\ \E j \in DOMAIN done, k \in DOMAIN done, l \in DOMAIN done :
          /\ j < k
          /\ quick_key(done[j].emb) = quick_key(done[k].emb)
          /\ done[j].qpid = done[k].qpid
          /\ quick_key(done[l].emb) # quick_key(done[k].emb)
          /\ done[l].qpid # done[k].qpid

\* C8: in domain mode every quick pattern entry has as many slot sets as its
\* embeddings have elements (the equality asserted at the start of the domain
\* canonical_aggregate_each), and slot i is the set of the vertex ids at
\* position i of the aggregated embeddings with that key
C8_QuickDomainSlots ==
    mode = "domain" =>
        /\ DOMAIN qp_map = DoneKeys
        /\ \A key \in DOMAIN qp_map :
              /\ Len(qp_map[key].val) = Len(key)
              /\ \A k \in WithKey(key) : Len(done[k].emb) = Len(qp_map[key].val)
              /\ \A i \in 1 .. Len(key) :
                    qp_map[key].val[i] =
                        {edge_get_vertex(done[k].emb, i - 1) : k \in WithKey(key)}

C8_Witness ==
    /\ mode = "domain"
    /\ phase = "canonical"
    /\ \E key \in qp_todo :
          /\ Cardinality(WithKey(key)) >= 2
          /\ Len(key) >= 3
          /\ \E i \in 1 .. Len(key) : Cardinality(qp_map[key].val[i]) >= 2

\* C9: in domain mode slot i of a canonical entry is the union, over the
\* quick patterns reduced to it so far, of the quick pattern's slot set at
\* the index get_quick_pattern_index gives for i; the entry is created once
\* with as many slots as the quick pattern has elements
C9_CanonicalDomainThroughPerm ==
    mode = "domain" =>
        /\ DOMAIN cg_map = {canonical_key(q) : q \in Reduced}
        /\ \A c \in DOMAIN cg_map :
              /\ \A q \in ReducedTo(c) : Len(cg_map[c].val) = Len(q)
              /\ \A i \in 1 .. Len(cg_map[c].val) :
                    cg_map[c].val[i] =
                        UNION {qp_map[q].val[
                                  get_quick_pattern_index(
                                      turn_canonical_graph(q, cg_reg), i - 1) + 1] :
                               q \in ReducedTo(c)}

C9_Witness ==
    /\ mode = "domain"
    /\ phase = "canonical"
    /\ qp_todo = {}
    /\ \E c \in DOMAIN cg_map :
          /\ Cardinality(ReducedTo(c)) >= 2
          /\ \E i \in 1 .. Len(cg_map[c].val) :
                cg_map[c].val[i] # UNION {qp_map[q].val[i] : q \in ReducedTo(c)}

\* C10: in frequency mode the counter of a canonical entry is the sum of the
\* frequencies of the quick patterns reduced to it; once every entry of the
\* quick pattern map is reduced it is the number of the level's embeddings of
\* that canonical shape, and the counters add up to the number of embeddings
C10_FrequencyConservation ==
    FreqMode =>
        /\ DOMAIN cg_map = {canonical_key(q) : q \in Reduced}
        /\ \A c \in DOMAIN cg_map : cg_map[c].val = SumVal(ReducedTo(c), qp_map)
        /\ (phase # "quick" /\ qp_todo = {}) =>
              /\ \A c \in DOMAIN cg_map :
                    cg_map[c].val =
                        Cardinality({k \in DOMAIN done :
                                        canonical_key(quick_key(done[k].emb)) = c})
              /\ SumVal(DOMAIN cg_map, cg_map) = Len(done)

C10_Witness ==
    /\ mode = "freq"
    /\ phase = "canonical"
    /\ qp_todo = {}
    /\ \E c \in DOMAIN cg_map :
          /\ Cardinality(ReducedTo(c)) >= 2
          /\ \E q \in ReducedTo(c) : qp_map[q].val >= 2
          /\ cg_map[c].val = Len(done)

\* the id map only grows: an entry is never changed or removed
IdMapKept == \A k \in DOMAIN id_map : k \in DOMAIN id_map' /\ id_map'[k] = id_map[k]

\* every quick pattern reduced by canonical_aggregate_each has its id in the
\* id map, with the id of the entry of its canonical pattern in cg_map
IdMapOfReduced ==
    mode \in {"freq", "domain"} =>
        /\ \A q \in Reduced :
              /\ qp_map[q].id \in DOMAIN id_map
              /\ canonical_key(q) \in DOMAIN cg_map
              /\ id_map[qp_map[q].id] = cg_map[canonical_key(q)].id
        /\ \A k \in DOMAIN id_map :
              /\ k \in DOMAIN qp_reg
              /\ id_map[k] = IdIn(cg_reg, canonical_key(qp_reg[k]))

\* C11: the id map is a function from quick pattern ids to canonical pattern
\* ids that only grows: an entry once inserted is never changed or removed,
\* and the id recorded for a quick pattern is the id under which its
\* canonical pattern is stored in the canonical map
C11_IdMapGrowsOnly == []IdMapOfReduced /\ [][IdMapKept]_vars

C11_Witness ==
    /\ mode \in {"freq", "domain"}
    /\ phase = "canonical"
    /\ level >= 3
    /\ qp_todo = {}
    /\ \E j \in DOMAIN id_map, k \in DOMAIN id_map : j # k /\ id_map[j] = id_map[k]
    /\ \E j \in DOMAIN id_map, k \in DOMAIN id_map : id_map[j] # id_map[k]

---------------------------------------------------------------------------
(* Threads that reduce the entries of their own quick pattern maps into     *)
(* their own canonical maps and record the ids in the one shared id map.    *)

\* the quick patterns of an edge, of two edges at the first vertex and of
\* two edges in a row
PatternPool ==
    << <<[vid |-> 1, his |-> 0], [vid |-> 2, his |-> 0]>>,
       <<[vid |-> 1, his |-> 0], [vid |-> 2, his |-> 0], [vid |-> 3, his |-> 0]>>,
       <<[vid |-> 1, his |-> 0], [vid |-> 2, his |-> 0], [vid |-> 3, his |-> 1]>> >>

RECURSIVE CanonicalRegistry(_, _)
\* the canonical patterns of the quick patterns qs, registered in that order
CanonicalRegistry(qs, reg) ==
    IF qs = <<>> THEN reg
    ELSE CanonicalRegistry(Tail(qs), Register(reg, canonical_key(Head(qs))))

\* a quick pattern map entry of a thread: the pattern, its id and its value
\* (a frequency, or one set of vertex ids per slot), with the canonical
\* pattern cg the thread gets for it from turn_canonical_graph
LocalEntry(k, md) ==
    [q   |-> PatternPool[k],
     id  |-> k,
     cg  |-> turn_canonical_graph(PatternPool[k], CanonicalRegistry(PatternPool, <<>>)),
     val |-> IF md = "freq" THEN 1
             ELSE [i \in 1 .. Len(PatternPool[k]) |-> {i - 1}]]

\* the local quick pattern maps a thread can hold
LocalMaps(md) ==
    {[i \in 1 .. Cardinality(S) |-> LocalEntry(SetToSeq(S)[i], md)] :
        S \in SUBSET (DOMAIN PatternPool)}

\* the position of a thread that starts on entry k of the map m
StartAt(m, k) == [at |-> k, step |-> IF k > Len(m) THEN "done" ELSE "lock"]

\* slock.lock() returns only when no thread holds the lock
slock_lock(l, t) == IF l = NoThread THEN {t} ELSE {}

\* a call site without slock.unlock()
slock_unlock_missing(l) == l

\* slock.unlock()
slock_unlock(l) == NoThread

CurrentEntry(t) == qp_local[t][pc[t].at]

LockInit ==
    \E md \in {"freq", "domain"} :
        /\ graph = GraphOf({})
        /\ work = <<>>
        /\ queue = <<>>
        /\ cur = <<>>
        /\ emitted = <<>>
        /\ level = 2
        /\ num = 0
        /\ need_update = TRUE
        /\ max_size = 0
        /\ expanded = <<>>
        /\ mode = md
        /\ phase = "canonical"
        /\ done = <<>>
        /\ qp_map = EmptyMap
        /\ cg_map = EmptyMap
        /\ id_map = EmptyMap
        /\ qp_todo = {}
        /\ qp_reg = PatternPool
        /\ cg_reg = CanonicalRegistry(PatternPool, <<>>)
        /\ qp_local \in [Threads -> LocalMaps(md)]
        /\ pc = [t \in Threads |-> StartAt(qp_local[t], 1)]
        /\ slock = NoThread
        /\ cg_local = [t \in Threads |-> EmptyMap]
        /\ SupIdle
        /\ MotIdle
        /\ ClqIdle
        /\ DesIdle
        /\ CmpIdle

\* turn_canonical_graph, get_id, then slock.lock()
ThreadLock(t) ==
    /\ pc[t].step = "lock"
    /\ slock' \in slock_lock(slock, t)
    /\ pc' = [pc EXCEPT ![t].step = "insert"]
    /\ UNCHANGED <<graph, work, queue, cur, emitted, level, num, need_update,
                   max_size, expanded, aggVars, qp_local, cg_local>>
    /\ UNCHANGED supVars
    /\ UNCHANGED motVars
    /\ UNCHANGED <<clqVars, desVars, cmpVars>>

\* id_map.insert(std::make_pair(qp_id, cg_id))
ThreadInsert(t) ==
    /\ pc[t].step = "insert"
    /\ id_map' = map_insert(id_map, CurrentEntry(t).id, CurrentEntry(t).cg.id)
    /\ pc' = [pc EXCEPT ![t].step = "unlock"]
    /\ UNCHANGED <<graph, work, queue, cur, emitted, level, num, need_update,
                   max_size, expanded>>
    /\ UNCHANGED <<mode, phase, done, qp_map, cg_map, qp_todo, qp_reg, cg_reg>>
    /\ UNCHANGED <<slock, qp_local, cg_local>>
    /\ UNCHANGED supVars
    /\ UNCHANGED motVars
    /\ UNCHANGED <<clqVars, desVars, cmpVars>>

\* slock.unlock()
ThreadUnlock(t) ==
    /\ pc[t].step = "unlock"
    /\ slock' = slock_unlock(slock)
    /\ pc' = [pc EXCEPT ![t].step = "count"]
    /\ UNCHANGED <<graph, work, queue, cur, emitted, level, num, need_update,
                   max_size, expanded, aggVars, qp_local, cg_local>>
    /\ UNCHANGED supVars
    /\ UNCHANGED motVars
    /\ UNCHANGED <<clqVars, desVars, cmpVars>>

\* the update of the thread's canonical map; the call returns and the thread
\* goes on to the next entry of its quick pattern map
ThreadCount(t) ==
    /\ pc[t].step = "count"
    /\ cg_local' = [cg_local EXCEPT ![t] =
                        IF mode = "freq"
                        THEN add_frequency(CurrentEntry(t).cg, CurrentEntry(t).val, @)
                        ELSE union_domains(CurrentEntry(t).cg, Len(CurrentEntry(t).q),
                                           CurrentEntry(t).val, @)]
    /\ pc' = [pc EXCEPT ![t] = StartAt(qp_local[t], pc[t].at + 1)]
    /\ UNCHANGED <<graph, work, queue, cur, emitted, level, num, need_update,
                   max_size, expanded, aggVars, slock, qp_local>>
    /\ UNCHANGED supVars
    /\ UNCHANGED motVars
    /\ UNCHANGED <<clqVars, desVars, cmpVars>>

ThreadStep(t) == ThreadLock(t) \/ ThreadInsert(t) \/ ThreadUnlock(t) \/ ThreadCount(t)

LockNext == \E t \in Threads : ThreadStep(t)

LockSpec == LockInit /\ [][LockNext]_vars

\* every thread keeps running: a thread that can take a step takes one
LockFairSpec == LockSpec /\ \A t \in Threads : WF_vars(ThreadStep(t))

AllFinished == \A t \in Threads : pc[t].step = "done"

\* thread t has passed the id map insert for entry k of its map
Inserted(t, k) ==
    \/ k < pc[t].at
    \/ k = pc[t].at /\ pc[t].step \in {"unlock", "count"}

LockSafe ==
    /\ \A t \in Threads, u \in Threads :
          (pc[t].step = "insert" /\ pc[u].step = "insert") => t = u
    /\ \A t \in Threads : (slock = t) <=> (pc[t].step \in {"insert", "unlock"})
    /\ AllFinished => slock = NoThread
    /\ \A t \in Threads : \A k \in DOMAIN qp_local[t] :
          Inserted(t, k) =>
              /\ qp_local[t][k].id \in DOMAIN id_map
              /\ id_map[qp_local[t][k].id] =
                     IdIn(cg_reg, canonical_key(qp_local[t][k].q))

\* C12: at most one thread is inside the id map insert at a time, slock is
\* held exactly from the lock to the unlock around that insert, every thread
\* finishes, and the id map then has an entry for every quick pattern id a
\* thread processed, also for an id processed by two threads
C12_IdMapWriteSerialized == []LockSafe /\ <>[]AllFinished

C12_Witness ==
    /\ AllFinished
    /\ \E t \in Threads, u \in Threads :
          /\ t # u
          /\ Len(qp_local[t]) >= 2
          /\ Len(qp_local[u]) >= 2
          /\ \E j \in DOMAIN qp_local[t], k \in DOMAIN qp_local[u] :
                qp_local[t][j].id = qp_local[u][k].id
    /\ Cardinality(DOMAIN id_map) >= 2

---------------------------------------------------------------------------
(* Per-thread accumulation: the embeddings of one level are split over the  *)
(* threads, every thread aggregates its share into its own quick pattern    *)
(* map and reduces it into its own canonical map, and after the barrier the *)
(* canonical maps of the threads are merged into cg_map.                    *)

\* the number of vertices of the graphs whose embeddings are split
MergeV == 3

RECURSIVE ExtendAll(_)
\* extend_edge on every embedding of a level: the embeddings of the next one
ExtendAll(embs) ==
    IF embs = <<>> THEN <<>>
    ELSE extend_edge(NumV, Head(embs)).queue \o ExtendAll(Tail(embs))

\* the merge of a thread's canonical map into the global one, by key:
\* counters are added, slot sets are united
merge_maps(md, cm, local) ==
    [c \in DOMAIN cm \cup DOMAIN local |->
        IF c \notin DOMAIN local THEN cm[c]
        ELSE IF c \notin DOMAIN cm THEN local[c]
        ELSE [id  |-> cm[c].id,
              val |-> IF md = "freq" THEN cm[c].val + local[c].val
                      ELSE [i \in DOMAIN cm[c].val |-> cm[c].val[i] \cup local[c].val[i]]]]

\* the map m without the entry of key k
Without(m, k) == [x \in DOMAIN m \ {k} |-> m[x]]

MergeInit ==
    \E E \in {F \in SUBSET {p \in Pairs : p[2] < MergeV} : Cardinality(F) <= MaxEdges},
       md \in {"freq", "domain"}, lv \in {2, 3} :
        /\ graph = GraphOf(E)
        /\ work = IF lv = 2 THEN InitialEdgeEmbeddings(E)
                  ELSE ExtendAll(InitialEdgeEmbeddings(E))
        /\ queue = work
        /\ cur = <<>>
        /\ emitted = <<>>
        /\ level = lv
        /\ num = 0
        /\ need_update = TRUE
        /\ max_size = NumV
        /\ expanded = <<>>
        /\ mode = md
        /\ phase = "quick"
        /\ done = <<>>
        /\ qp_map = EmptyMap
        /\ cg_map = EmptyMap
        /\ id_map = EmptyMap
        /\ qp_todo = {}
        /\ qp_reg = <<>>
        /\ cg_reg = <<>>
        /\ pc = [t \in Threads |-> [at |-> 1, step |-> "aggregate"]]
        /\ slock = NoThread
        /\ qp_local = [t \in Threads |-> EmptyMap]
        /\ cg_local = [t \in Threads |-> EmptyMap]
        /\ SupIdle
        /\ MotIdle
        /\ ClqIdle
        /\ DesIdle
        /\ CmpIdle

\* thread t takes the next embedding of the level: quick_aggregate_each into
\* its own map
MergeQuickEach(t) ==
    /\ phase = "quick"
    /\ work # <<>>
    /\ LET emb == Head(work)
           r   == IF mode = "freq"
                  THEN quick_aggregate_each_freq(emb, qp_local[t], qp_reg)
                  ELSE quick_aggregate_each_domain(emb, qp_local[t], qp_reg)
       IN  /\ qp_local' = [qp_local EXCEPT ![t] = r.qp_map]
           /\ done' = Append(done, [emb |-> emb, qpid |-> r.qpid, each |-> TRUE, by |-> t])
           /\ qp_reg' = Register(qp_reg, quick_key(emb))
    /\ work' = Tail(work)
    /\ phase' = IF work' = <<>> THEN "canonical" ELSE "quick"
    /\ UNCHANGED <<graph, queue, cur, emitted, level, num, need_update, max_size, expanded>>
    /\ UNCHANGED <<mode, qp_map, cg_map, id_map, qp_todo, cg_reg>>
    /\ UNCHANGED <<pc, slock, cg_local>>
    /\ UNCHANGED supVars
    /\ UNCHANGED motVars
    /\ UNCHANGED <<clqVars, desVars, cmpVars>>

\* thread t reduces one entry of its quick pattern map, in any order:
\* canonical_aggregate_each into its own canonical map
MergeCanonicalEach(t) ==
    /\ phase = "canonical"
    /\ \E q \in DOMAIN qp_local[t] :
          LET e == qp_local[t][q]
              r == IF mode = "freq"
                   THEN canonical_aggregate_each_freq(q, e.id, e.val, cg_local[t],
                                                      id_map, cg_reg)
                   ELSE canonical_aggregate_each_domain(q, e.id, e.val, cg_local[t],
                                                        id_map, cg_reg)
          IN  /\ cg_local' = [cg_local EXCEPT ![t] = r.cg_map]
              /\ id_map' = r.id_map
              /\ cg_reg' = r.reg
              /\ qp_local' = [qp_local EXCEPT ![t] = Without(@, q)]
    /\ UNCHANGED <<graph, work, queue, cur, emitted, level, num, need_update,
                   max_size, expanded>>
    /\ UNCHANGED <<mode, phase, done, qp_map, cg_map, qp_todo, qp_reg>>
    /\ UNCHANGED <<pc, slock>>
    /\ UNCHANGED supVars
    /\ UNCHANGED motVars
    /\ UNCHANGED <<clqVars, desVars, cmpVars>>

\* after the barrier the canonical map of thread t is merged into cg_map
MergeLocal(t) ==
    /\ phase = "canonical"
    /\ \A u \in Threads : qp_local[u] = EmptyMap
    /\ pc[t].step = "aggregate"
    /\ cg_map' = merge_maps(mode, cg_map, cg_local[t])
    /\ pc' = [pc EXCEPT ![t].step = "merged"]
    /\ UNCHANGED <<graph, work, queue, cur, emitted, level, num, need_update,
                   max_size, expanded>>
    /\ UNCHANGED <<mode, phase, done, qp_map, id_map, qp_todo, qp_reg, cg_reg>>
    /\ UNCHANGED <<slock, qp_local, cg_local>>
    /\ UNCHANGED supVars
    /\ UNCHANGED motVars
    /\ UNCHANGED <<clqVars, desVars, cmpVars>>

MergeNext == \E t \in Threads : MergeQuickEach(t) \/ MergeCanonicalEach(t) \/ MergeLocal(t)

MergeSpec == MergeInit /\ [][MergeNext]_vars

RECURSIVE OneQuickMap(_, _, _, _)
\* quick_aggregate_each on every embedding of embs into the one map m
OneQuickMap(md, embs, m, reg) ==
    IF embs = <<>> THEN m
    ELSE OneQuickMap(md, Tail(embs),
                     IF md = "freq"
                     THEN quick_aggregate_each_freq(Head(embs), m, reg).qp_map
                     ELSE quick_aggregate_each_domain(Head(embs), m, reg).qp_map,
                     Register(reg, quick_key(Head(embs))))

RECURSIVE OneCanonicalMap(_, _, _, _, _)
\* canonical_aggregate_each on every entry of the quick pattern map qm into
\* the one map cm
OneCanonicalMap(md, todo, qm, cm, reg) ==
    IF todo = {} THEN cm
    ELSE LET q == CHOOSE x \in todo : TRUE
             r == IF md = "freq"
                  THEN canonical_aggregate_each_freq(q, qm[q].id, qm[q].val, cm, EmptyMap, reg)
                  ELSE canonical_aggregate_each_domain(q, qm[q].id, qm[q].val, cm,
                                                       EmptyMap, reg)
         IN  OneCanonicalMap(md, todo \ {q}, qm, r.cg_map, r.reg)

\* the canonical map one thread gets from all the embeddings of the level
OneMap ==
    OneCanonicalMap(mode, DOMAIN OneQuickMap(mode, queue, EmptyMap, <<>>),
                    OneQuickMap(mode, queue, EmptyMap, <<>>), EmptyMap, <<>>)

AllMerged == \A t \in Threads : pc[t].step = "merged"

\* C13: however the embeddings of a level are split over the threads, in
\* whatever order a thread reduces its quick patterns and in whatever order
\* the canonical maps of the threads are merged, the merged map has the keys
\* and the values (counters, slot sets) of the map that one thread gets from
\* all the embeddings
C13_MergeCommutes ==
    AllMerged =>
        /\ DOMAIN cg_map = DOMAIN OneMap
        /\ \A c \in DOMAIN cg_map : cg_map[c].val = OneMap[c].val

C13_Witness ==
    /\ AllMerged
    /\ mode = "domain"
    /\ level = 3
    /\ \E j \in DOMAIN done, k \in DOMAIN done :
          /\ done[j].by # done[k].by
          /\ quick_key(done[j].emb) # quick_key(done[k].emb)
          /\ canonical_key(quick_key(done[j].emb)) = canonical_key(quick_key(done[k].emb))
    /\ \E c \in DOMAIN cg_map : \E t \in Threads :
          c \in DOMAIN cg_local[t] /\ cg_local[t][c].val # cg_map[c].val

---------------------------------------------------------------------------
(* Canonical patterns and isomorphism *)

\* the pattern graph of an edge embedding: its vertices and its edges
EmbGraph(emb) ==
    [n     |-> Cardinality(Vids(emb)),
     verts |-> Vids(emb),
     edges |-> {Norm(<<emb[emb[j].his + 1].vid, emb[j].vid>>) : j \in 2 .. Len(emb)}]

\* a canonical pattern as a graph on the vertices 1 .. n
KeyGraph(c) == [n |-> c.n, verts |-> 1 .. c.n, edges |-> c.edges]

\* G and H are isomorphic
Isomorphic(G, H) ==
    /\ G.n = H.n
    /\ Cardinality(G.edges) = Cardinality(H.edges)
    /\ \E f \in [G.verts -> H.verts] :
          /\ \A a \in G.verts, b \in G.verts : a # b => f[a] # f[b]
          /\ {Norm(<<f[e[1]], f[e[2]]>>) : e \in G.edges} = H.edges

\* the canonical pattern of the embedding / of the later of two embeddings
\* when the patterns are created one after the other
CgOf(emb) == turn_canonical_graph(quick_key(emb), cg_reg)

CgAfter(first, emb) ==
    turn_canonical_graph(quick_key(emb), Register(cg_reg, CgOf(first).key))

\* C14: turn_canonical_graph gives a pattern isomorphic to the embedding's
\* pattern graph; two embeddings get equal canonical patterns and equal
\* canonical pattern ids iff their pattern graphs are isomorphic, also
\* against the patterns of earlier levels and for the ids recorded in id_map
C14_CanonicalIffIsomorphic ==
    \A j \in DOMAIN done :
        /\ Isomorphic(EmbGraph(done[j].emb), KeyGraph(CgOf(done[j].emb).key))
        /\ \A k \in DOMAIN done :
              LET iso == Isomorphic(EmbGraph(done[j].emb), EmbGraph(done[k].emb))
              IN  /\ iso <=> (CgOf(done[j].emb).key = CgOf(done[k].emb).key)
                  /\ iso <=> (CgAfter(done[j].emb, done[j].emb).id
                                 = CgAfter(done[j].emb, done[k].emb).id)
                  /\ (mode \in {"freq", "domain"} /\ phase # "quick" /\ qp_todo = {}) =>
                        (iso <=> (id_map[done[j].qpid] = id_map[done[k].qpid]))
        /\ \A i \in DOMAIN cg_reg :
              LET iso == Isomorphic(EmbGraph(done[j].emb), KeyGraph(cg_reg[i]))
              IN  /\ iso <=> (CgOf(done[j].emb).key = cg_reg[i])
                  /\ iso <=> (CgOf(done[j].emb).id = i)

C14_Witness ==
    /\ phase = "canonical"
    /\ qp_todo = {}
    /\ mode = "domain"
    /\ \E j \in DOMAIN done, k \in DOMAIN done :
          /\ quick_key(done[j].emb) # quick_key(done[k].emb)
          /\ CgOf(done[j].emb).id = CgOf(done[k].emb).id
    /\ \E j \in DOMAIN done, i \in DOMAIN cg_reg :
          /\ ~Isomorphic(EmbGraph(done[j].emb), KeyGraph(cg_reg[i]))
          /\ CgOf(done[j].emb).id # i

---------------------------------------------------------------------------
(* Properties of support counting and filtering *)

\* the least cardinality among the slot sets, defined without the miner
MinSlot(sets) ==
    CHOOSE n \in 0 .. NumV :
        /\ \E i \in DOMAIN sets : Cardinality(sets[i]) = n
        /\ \A i \in DOMAIN sets : Cardinality(sets[i]) >= n

\* the support of the canonical map entry c
SupportOf(c) == IF mode = "domain" THEN MinSlot(cg_map[c].val) ELSE cg_map[c].val

\* the canonical pattern of an embedding, by the reference canonical form
KeyOf(emb) == canonical_key(quick_key(emb))

\* the embeddings of done whose canonical pattern is frequent, in order
FrequentOfDone ==
    LET embs == [k \in DOMAIN done |-> done[k].emb]
    IN  SelectSeq(embs, LAMBDA emb : SupportOf(KeyOf(emb)) >= threshold)

\* the filter of the level has visited every embedding
FilterComplete == phase = "filter" /\ ~aborted /\ filter_at > Len(done)

\* C15: after support_count, the support map holds under every canonical
\* pattern's id its support (domain mode: the least slot cardinality, which is
\* what get_support returns; frequency mode: the counter), the returned count
\* is the number of canonical patterns with support >= threshold, and the
\* pattern-based domain filter keeps exactly the embeddings whose canonical
\* pattern has get_support >= threshold.
C15_SupportEvaluation ==
    phase = "filter" =>
        /\ \A c \in DOMAIN cg_map :
              /\ cg_map[c].id \in DOMAIN support_map
              /\ support_map[cg_map[c].id] = SupportOf(c)
              /\ mode = "domain" => get_support(cg_map[c].val) = MinSlot(cg_map[c].val)
        /\ num_frequent = Cardinality({c \in DOMAIN cg_map : SupportOf(c) >= threshold})
        /\ (FilterComplete /\ filt = "pattern" /\ mode = "domain") =>
              out_queue = FrequentOfDone

\* a domain run has filtered a level by pattern and kept embeddings of a
\* pattern whose first slot is not its smallest
C15_Witness ==
    /\ FilterComplete
    /\ filt = "pattern"
    /\ mode = "domain"
    /\ out_queue # <<>>
    /\ num_frequent >= 1
    /\ \E c \in DOMAIN cg_map :
          Cardinality(cg_map[c].val[1]) > MinSlot(cg_map[c].val)

\* the embeddings among the first n of done whose canonical pattern is
\* frequent, in order
FrequentAmong(n) ==
    LET embs == [k \in 1 .. n |-> done[k].emb]
    IN  SelectSeq(embs, LAMBDA emb : SupportOf(KeyOf(emb)) >= threshold)

\* C16: after a complete level pass (quick_aggregate_each on every embedding,
\* canonical_aggregate_each on every quick pattern entry, support_count), the
\* id-based filter and filter_each find id_map[qp id] and support_map[cg id]
\* for every embedding of the level, so they never fail, and the output queue
\* holds exactly the visited embeddings whose canonical pattern has support
\* >= threshold: the others are dropped and nothing else is added.
C16_IdFilterEndToEnd ==
    (phase = "filter" /\ filt \in {"id", "id_each"}) =>
        /\ ~aborted
        /\ \A k \in DOMAIN done :
              /\ done[k].qpid \in DOMAIN id_map
              /\ id_map[done[k].qpid] \in DOMAIN support_map
              /\ support_map[id_map[done[k].qpid]] = SupportOf(KeyOf(done[k].emb))
        /\ out_queue = FrequentAmong(filter_at - 1)

\* filter_each by id has kept the embeddings of a level at threshold 2, two of
\* them with different quick patterns of one canonical pattern
C16_Witness ==
    /\ FilterComplete
    /\ filt = "id_each"
    /\ threshold = 2
    /\ out_queue # <<>>
    /\ \E j, k \in DOMAIN done :
          /\ done[j].qpid # done[k].qpid
          /\ id_map[done[j].qpid] = id_map[done[k].qpid]

\* the embedding that extend_edge extended to emb
ParentOf(emb) == SubSeq(emb, 1, Len(emb) - 1)

\* the support that support_count recorded for the canonical pattern of a
\* classified embedding, through the qp id of its quick pattern
RecordedSupport(emb) == support_map[id_map[IdIn(qp_reg, quick_key(emb))]]

\* the largest number of edges of the input graph of a small-pattern run
SupportEdges == 4

\* a mining run for the patterns of fewer than NumV vertices, on graphs that
\* may have one more edge
SupportInit ==
    \E E \in {F \in SUBSET Pairs : Cardinality(F) <= SupportEdges},
       md \in {"freq", "freq_bulk", "domain"},
       thr \in 1 .. MaxThreshold :
        /\ graph = GraphOf(E)
        /\ work = <<>>
        /\ queue = InitialEdgeEmbeddings(E)
        /\ cur = <<>>
        /\ emitted = <<>>
        /\ level = 2
        /\ num = 0
        /\ need_update = TRUE
        /\ max_size = NumV - 1
        /\ expanded = <<>>
        /\ mode = md
        /\ phase = "quick"
        /\ done = <<>>
        /\ qp_map = EmptyMap
        /\ cg_map = EmptyMap
        /\ id_map = EmptyMap
        /\ qp_todo = {}
        /\ qp_reg = <<>>
        /\ cg_reg = <<>>
        /\ ThrIdle
        /\ threshold = thr
        /\ support_map = EmptyMap
        /\ num_frequent = 0
        /\ out_queue = <<>>
        /\ filt = "none"
        /\ filter_at = 1
        /\ aborted = FALSE
        /\ MotIdle
        /\ ClqIdle
        /\ DesIdle
        /\ CmpIdle

SupportSpec == SupportInit /\ [][MineNext]_vars

\* C17: along a level-by-level domain run (extend_edge, domain quick
\* aggregation, canonical aggregation, support_count), the domain support
\* computed for the pattern of an extended embedding is at most the domain
\* support computed for the pattern of the embedding it was extended from.
C17_DomainSupportAntiMonotone ==
    (mode = "domain" /\ phase = "filter" /\ level > 2) =>
        \A k \in DOMAIN done :
            RecordedSupport(done[k].emb) <= RecordedSupport(ParentOf(done[k].emb))

\* a domain run has counted the support of a level of extended embeddings,
\* and a pattern's support is smaller than that of the pattern it grew from
C17_Witness ==
    /\ mode = "domain"
    /\ phase = "filter"
    /\ level > 2
    /\ \E k \in DOMAIN done :
          /\ RecordedSupport(done[k].emb) < RecordedSupport(ParentOf(done[k].emb))
          /\ RecordedSupport(done[k].emb) >= 1

---------------------------------------------------------------------------
(* A run whose driver does not keep the barrier: support_count and the      *)
(* filter start while quick patterns of the level are still to be reduced,  *)
(* so the maps can lack the pattern of an embedding of the level.           *)

\* support_count before the canonical pass is complete
SupportCountEarly ==
    /\ qp_todo # {}
    /\ CountSupport

EarlyNext == MineNext \/ SupportCountEarly

EarlySpec == MineInit /\ [][EarlyNext]_vars

\* the map the running filter reads lacks the pattern of the embedding at
\* position k of the level
AbsentAt(k) ==
    IF filt \in {"id", "id_each"}
    THEN \/ done[k].qpid \notin DOMAIN id_map
         \/ id_map[done[k].qpid] \notin DOMAIN support_map
    ELSE KeyOf(done[k].emb) \notin DOMAIN cg_map

\* a filter call visits an embedding whose pattern is absent
FilterMeetsAbsent ==
    /\ phase = "filter"
    /\ filter_at' > filter_at
    /\ \E k \in filter_at .. (filter_at' - 1) : AbsentAt(k)

\* C18: a filter or filter_each call that meets an embedding whose canonical
\* pattern (or cg id) is absent from the map it reads ends the run; it does
\* not change the maps, and filter_each neither keeps nor drops the embedding
\* silently.
C18_AbsentPatternIsFatal ==
    [][FilterMeetsAbsent =>
          /\ aborted'
          /\ cg_map' = cg_map
          /\ id_map' = id_map
          /\ support_map' = support_map
          /\ (filter_at' = filter_at + 1 => out_queue' = out_queue)]_vars

\* filter_each on a domain map has met an absent pattern: the run goes on,
\* the pattern is in the map with no slot and the embedding is in the output
C18_Witness ==
    /\ phase = "filter"
    /\ filt = "pattern_each"
    /\ mode = "domain"
    /\ ~aborted
    /\ out_queue # <<>>
    /\ \E c \in DOMAIN cg_map : cg_map[c].val = <<>>

---------------------------------------------------------------------------
(* The level barrier *)

\* a filter call runs
FilterReads == phase = "filter" /\ filter_at' > filter_at

\* every quick pattern of the level is reduced: its canonical pattern is in
\* the canonical map and, after the each passes, its id in the id map
LevelReduced ==
    /\ qp_todo = {}
    /\ \A q \in DOMAIN qp_map : canonical_key(q) \in DOMAIN cg_map
    /\ mode # "freq_bulk" => \A q \in DOMAIN qp_map : qp_map[q].id \in DOMAIN id_map

---------------------------------------------------------------------------
(* Scenario: 3-vertex motifs of the path graph *)

\* the path on four vertices; the vertex ids are 0-based
PathGraph == GraphOf({<<0, 1>>, <<1, 2>>, <<2, 3>>})

\* the 3-vertex embeddings are emitted and every one of them is aggregated
ThreeMotifsCounted ==
    \/ level = 2 /\ work = <<>> /\ agg_at > Len(queue)
    \/ level > 2

\* the count of motif k in the map, 0 when the map has no entry for it
MotifCount(k) == IF k \in DOMAIN motif_map THEN motif_map[k] ELSE 0

\* C20: on the 4-vertex path graph, extend_vertex_motif on the edge
\* embeddings and aggregate_motif_each on every emitted embedding yield one
\* pattern, the three-chain, with count 2, and no triangle.
C20_PathGraphMotifs ==
    (graph = PathGraph /\ ThreeMotifsCounted) =>
        /\ MotifCount(1) = 2
        /\ MotifCount(0) = 0
        /\ {k \in DOMAIN motif_map : motif_map[k] > 0} = {1}

\* the 3-vertex motifs of the path graph have just been counted
C20_Witness ==
    /\ graph = PathGraph
    /\ level = 2
    /\ work = <<>>
    /\ Len(queue) = 2
    /\ agg_at = 3

---------------------------------------------------------------------------
(* Scenario: cliques of size 3 of the triangle graph *)

\* the triangle on the vertices 0, 1, 2
TriangleGraph == GraphOf({<<0, 1>>, <<0, 2>>, <<1, 2>>})

\* C21: on the triangle graph, extend_vertex_clique on the edge embeddings
\* finds exactly one clique of size 3: the count is 1, which meets a
\* threshold of 1, the one embedding queued is the triangle, and it is not
\* extended further.
C21_TriangleOneClique ==
    (graph = TriangleGraph /\ (level > 2 \/ work = <<>>)) =>
        /\ num = 1
        /\ (need_update /\ level = 2) => queue = << <<0, 1, 2>> >>
        /\ level = 3 => (queue = <<>> /\ work \in {<<>>, << <<0, 1, 2>> >>})

\* the edges of the triangle graph are all extended and the clique is queued
C21_Witness ==
    /\ graph = TriangleGraph
    /\ level = 2
    /\ work = <<>>
    /\ need_update
    /\ Len(queue) = 1

---------------------------------------------------------------------------
(* Scenario: single-edge patterns of the star graph *)

\* the graph is a star: three edges, all at one center
IsStar ==
    \E c \in Vertices :
        /\ Cardinality(graph[c]) = 3
        /\ \A v \in Vertices \ {c} : graph[v] \subseteq {c}

\* the first level has been classified and reduced
FirstLevelReduced ==
    /\ level = 2
    /\ \/ phase = "canonical" /\ qp_todo = {}
       \/ phase \in {"filter", "extend"}

\* C22: on a star graph with three leaves the single-edge level has 3
\* embeddings; in frequency mode they fall into one Quick Pattern with
\* frequency 3, which is reduced to one Canonical Pattern with frequency 3.
C22_StarOnePattern ==
    (IsStar /\ FreqMode /\ level = 2) =>
        /\ (phase = "quick" /\ queue = <<>>) \/ phase # "quick" =>
              /\ Len(done) = 3
              /\ Cardinality({quick_key(done[k].emb) : k \in DOMAIN done}) = 1
              /\ Cardinality(DOMAIN qp_map) = 1
              /\ \A q \in DOMAIN qp_map : qp_map[q].val = 3
        /\ FirstLevelReduced =>
              /\ Cardinality(DOMAIN cg_map) = 1
              /\ \A c \in DOMAIN cg_map : cg_map[c].val = 3

\* the three edge embeddings of a star were classified one by one and reduced
C22_Witness ==
    /\ IsStar
    /\ mode = "freq"
    /\ phase = "canonical"
    /\ qp_todo = {}
    /\ level = 2
    /\ Len(done) = 3
    /\ Cardinality(DOMAIN cg_map) = 1

---------------------------------------------------------------------------
(* Motif enumeration at the second round *)

\* C23: when extend_vertex_motif has been applied to every 2-vertex edge
\* embedding and then to every 3-vertex embedding so obtained, every connected
\* 4-vertex subset of the graph has been emitted as exactly one 4-vertex
\* embedding, and nothing else has been emitted.
C23_MotifFourExactlyOnce ==
    (level = 3 /\ work = <<>>) =>
        /\ \A S \in ConnectedSubsets(4) : Occurrences(queue, S) = 1
        /\ \A k \in DOMAIN queue :
              Len(queue[k]) = 4 /\ Range(queue[k]) \in ConnectedSubsets(4)

\* the second round is complete and a candidate adjacent to two vertices of a
\* 3-vertex parent was extended
C23_Witness ==
    /\ level = 3 /\ work = <<>>
    /\ \E k \in DOMAIN queue :
          /\ Len(queue[k]) = 4
          /\ Cardinality({i \in 1 .. 3 : Adjacent(queue[k][i], queue[k][4])}) >= 2

---------------------------------------------------------------------------
(* Counting-based clique detection: extend_vertex, then aggregate_clique    *)

RECURSIVE vertex_loop(_, _, _, _)
\* the two nested loops of extend_vertex from candidate (i, k) on: i is the
\* position, k the index into edges(id); st = [emb, queue]
vertex_loop(st, n, i, k) ==
    IF i >= n THEN st
    ELSE LET id == get_vertex(st.emb, i)
             es == edges(id)
         IN  IF k > Len(es) THEN vertex_loop(st, n, i + 1, 1)
             ELSE LET dst == es[k]
                  IN  IF dst > get_vertex(st.emb, n - 1)
                      THEN LET e1 == push_back(st.emb, dst)
                           IN  vertex_loop([emb   |-> pop_back(e1),
                                            queue |-> Append(st.queue, e1)],
                                           n, i, k + 1)
                      ELSE vertex_loop(st, n, i, k + 1)

\* what extend_vertex(emb, queue) appends to queue
extend_vertex(emb) ==
    vertex_loop([emb |-> emb, queue |-> <<>>], Len(emb), 0, 1).queue

\* the map without the entry of key
erase(sm, key) == [x \in DOMAIN sm \ {key} |-> sm[x]]

\* a variant that outputs an embedding one occurrence early
aggregate_clique_each_early(emb, sm, out) ==
    IF emb \in DOMAIN sm
    THEN IF sm[emb] + 1 = Len(emb) - 2
         THEN [sm |-> erase(sm, emb), out |-> Append(out, emb)]
         ELSE [sm |-> [sm EXCEPT ![emb] = @ + 1], out |-> out]
    ELSE [sm |-> sm @@ (emb :> 1), out |-> out]

\* aggregate_clique_each(emb, sm, out_queue): the map and the output queue
\* after the call
aggregate_clique_each(emb, sm, out) ==
    IF emb \in DOMAIN sm
    THEN IF sm[emb] = Len(emb) - 2
         THEN [sm |-> erase(sm, emb), out |-> Append(out, emb)]
         ELSE [sm |-> [sm EXCEPT ![emb] = @ + 1], out |-> out]
    ELSE [sm |-> sm @@ (emb :> 1), out |-> out]

RECURSIVE aggregate_clique_loop(_, _, _)
\* the loop of aggregate_clique over in_queue from index k on; st = [sm, out]
aggregate_clique_loop(in_queue, st, k) ==
    IF k > Len(in_queue) THEN st
    ELSE aggregate_clique_loop(in_queue,
                               aggregate_clique_each(in_queue[k], st.sm, st.out),
                               k + 1)

\* aggregate_clique(in_queue, out_queue): the output queue after the call; the
\* map is a local that starts empty
aggregate_clique(in_queue, out) ==
    aggregate_clique_loop(in_queue, [sm |-> EmptyMap, out |-> out], 1).out

CountInit ==
    \E E \in SUBSET Pairs :
        /\ graph = GraphOf(E)
        /\ work = EdgeEmbeddings(E)
        /\ queue = <<>>
        /\ cur = <<>>
        /\ emitted = <<>>
        /\ level = 2
        /\ num = 0
        /\ need_update = TRUE
        /\ max_size = 0
        /\ expanded = <<>>
        /\ AggIdle
        /\ ThrIdle
        /\ SupIdle
        /\ MotIdle
        /\ ClqIdle
        /\ DesIdle
        /\ CmpIdle

\* extend_vertex on the next embedding of the level
CountExtend ==
    /\ work # <<>>
    /\ cur' = Head(work)
    /\ emitted' = extend_vertex(Head(work))
    /\ queue' = queue \o emitted'
    /\ work' = Tail(work)
    /\ UNCHANGED <<graph, level, num, need_update, max_size, expanded>>
    /\ UNCHANGED <<aggVars, thrVars, supVars, motVars, clqVars, desVars, cmpVars>>

\* aggregate_clique_each on the next embedding the level emitted
CountAggregateEach ==
    /\ work = <<>>
    /\ agg_at <= Len(queue)
    /\ LET r == aggregate_clique_each(queue[agg_at], simple_agg, out_queue)
       IN  /\ simple_agg' = r.sm
           /\ out_queue' = r.out
    /\ agg_at' = agg_at + 1
    /\ UNCHANGED <<graph, work, queue, cur, emitted, level, num, need_update,
                   max_size, expanded>>
    /\ UNCHANGED <<threshold, support_map, num_frequent, filt, filter_at, aborted>>
    /\ UNCHANGED <<motif_map>>
    /\ UNCHANGED <<aggVars, thrVars, desVars, cmpVars>>

\* aggregate_clique on the whole queue of the level
CountAggregate ==
    /\ work = <<>>
    /\ queue # <<>>
    /\ agg_at = 1
    /\ out_queue' = aggregate_clique(queue, out_queue)
    /\ agg_at' = Len(queue) + 1
    /\ UNCHANGED <<graph, work, queue, cur, emitted, level, num, need_update,
                   max_size, expanded>>
    /\ UNCHANGED <<threshold, support_map, num_frequent, filt, filter_at, aborted>>
    /\ UNCHANGED <<motif_map>>
    /\ UNCHANGED <<aggVars, thrVars, clqVars, desVars, cmpVars>>

\* the level barrier: the cliques found are the input of the next level
CountNextLevel ==
    /\ work = <<>>
    /\ agg_at > Len(queue)
    /\ out_queue # <<>>
    /\ work' = out_queue
    /\ queue' = <<>>
    /\ out_queue' = <<>>
    /\ agg_at' = 1
    /\ level' = level + 1
    /\ UNCHANGED <<graph, cur, emitted, num, need_update, max_size, expanded>>
    /\ UNCHANGED <<threshold, support_map, num_frequent, filt, filter_at, aborted>>
    /\ UNCHANGED <<motif_map>>
    /\ UNCHANGED <<aggVars, thrVars, clqVars, desVars, cmpVars>>

CountNext == CountExtend \/ CountAggregateEach \/ CountAggregate \/ CountNextLevel

CountSpec == CountInit /\ [][CountNext]_vars

\* the embedding is strictly ascending
Ascending(emb) == \A i \in 1 .. (Len(emb) - 1) : emb[i] < emb[i + 1]

\* the number of vertices of emb adjacent to dst
AdjacentCount(emb, dst) == Cardinality({i \in DOMAIN emb : Adjacent(emb[i], dst)})

\* the part of the level's queue that has been aggregated
Aggregated == SubSeq(queue, 1, agg_at - 1)

\* C24: every parent is an ascending clique; extend_vertex emits parent + dst
\* once per parent vertex adjacent to dst, for dst above the last vertex and
\* for no other dst; aggregation outputs no embedding twice and only cliques,
\* and when the level's queue has been aggregated an embedding of size s is in
\* the output exactly once iff it occurs s-1 times in the queue, so that the
\* output is the set of the ascending cliques of the next size.
C24_CountingCliques ==
    /\ \A k \in DOMAIN work : Ascending(work[k]) /\ IsClique(Range(work[k]))
    /\ cur # <<>> =>
          /\ \A dst \in Vertices :
                Copies(emitted, Append(cur, dst)) =
                    IF dst > cur[Len(cur)] THEN AdjacentCount(cur, dst) ELSE 0
          /\ \A k \in DOMAIN emitted : SubSeq(emitted[k], 1, Len(cur)) = cur
    /\ \A k \in DOMAIN out_queue :
          /\ Copies(out_queue, out_queue[k]) = 1
          /\ Ascending(out_queue[k])
          /\ IsClique(Range(out_queue[k]))
    /\ (work = <<>> /\ agg_at > Len(queue)) =>
          /\ \A k \in DOMAIN queue :
                Copies(out_queue, queue[k]) =
                    IF Copies(queue, queue[k]) = Len(queue[k]) - 1 THEN 1 ELSE 0
          /\ Range(out_queue) = AscCliques(level + 1)

\* a level has been aggregated in which one child occurred s-1 times and was
\* output, and another occurred fewer times and was not
C24_Witness ==
    /\ work = <<>>
    /\ agg_at > Len(queue)
    /\ \E k \in DOMAIN queue :
          Copies(queue, queue[k]) = Len(queue[k]) - 1 /\ Copies(out_queue, queue[k]) = 1
    /\ \E k \in DOMAIN queue :
          Copies(queue, queue[k]) < Len(queue[k]) - 1 /\ Copies(out_queue, queue[k]) = 0

---------------------------------------------------------------------------
(* Well-formed edge embeddings *)

\* the positions of emb that hold an edge (position 0 holds the first vertex)
EdgePositions(emb) == 1 .. (Len(emb) - 1)

\* the first vertex is the minimum, no edge is a self-loop and no undirected
\* edge occurs twice
WellFormed(emb) ==
    /\ \A k \in DOMAIN emb : edge_get_vertex(emb, 0) <= emb[k].vid
    /\ \A index \in EdgePositions(emb) :
          getEdge(emb, index)[1] # getEdge(emb, index)[2]
    /\ \A i \in EdgePositions(emb), j \in EdgePositions(emb) :
          i # j => Norm(getEdge(emb, i)) # Norm(getEdge(emb, j))

\* C25: every embedding that is to be extended is well-formed, and when the
\* embedding handed to extend_edge is well-formed (first vertex minimal, no
\* self-loop, no repeated undirected edge), so is every embedding the call
\* emits; getEdge therefore never meets an edge with equal endpoints.
C25_WellFormedPreserved ==
    /\ \A k \in DOMAIN work : WellFormed(work[k])
    /\ (cur # <<>> /\ WellFormed(cur)) =>
          \A k \in DOMAIN emitted : WellFormed(emitted[k])

\* an embedding of two edges was extended, one emitted embedding closes a
\* cycle, and a candidate that repeats an edge of the input was a neighbour
C25_Witness ==
    /\ cur # <<>>
    /\ Len(cur) = 3
    /\ WellFormed(cur)
    /\ \E k \in DOMAIN emitted : emitted[k][Len(emitted[k])].vid \in Vids(cur)
    /\ \E c \in EdgeCandidates(cur), index \in EdgePositions(cur) :
          Norm(<<c[2], c[3]>>) = Norm(getEdge(cur, index))

---------------------------------------------------------------------------
(* Discrete event simulation, DESunorderedParaMeter::runLoop.  The          *)
(* simulation objects (SimObject::simulate, isActive) are outside the       *)
(* sources at hand: a simulate call of a node is any change of the pending  *)
(* events of the node and of the destinations of its out-edges; events      *)
(* delivered to a destination stay pending until its own simulate call.     *)
(* The id of a simulation object is its node.                               *)

\* the number of nodes of the DES graph; the nodes are 1 .. DesN
DesN == 3

\* the largest number of edges of the DES graph
MaxDesEdges == 3

\* the largest number of simulate calls of a run that leave pending events
MaxEvents == 2

DesNodes == 1 .. DesN

\* the directed graphs on the nodes, self-loops included
DesGraphs ==
    {[n \in DesNodes |-> {e[2] : e \in {d \in E : d[1] = n}}] :
        E \in {F \in SUBSET (DesNodes \X DesNodes) : Cardinality(F) <= MaxDesEdges}}

RECURSIVE Orders(_)
\* the sequences that hold every element of S once
Orders(S) ==
    IF S = {} THEN {<<>>}
    ELSE UNION {{<<x>> \o s : s \in Orders(S \ {x})} : x \in S}

\* simInit.getInputNodes(): distinct nodes in some order
InputNodes == UNION {Orders(S) : S \in SUBSET DesNodes}

\* a variant of abort that locks the active node only
abort_src_only(node) ==
    LET ab == locks[node] \/ \E dst \in des_graph[node] : locks[dst]
    IN  [abort |-> ab,
         locks |-> IF ab THEN locks ELSE [locks EXCEPT ![node] = TRUE]]

\* abort(activeNode): what it returns and the locks after the call
abort(node) ==
    LET ab == locks[node] \/ \E dst \in des_graph[node] : locks[dst]
    IN  [abort |-> ab,
         locks |-> IF ab THEN locks
                   ELSE [n \in DesNodes |->
                            locks[n] \/ n = node \/ n \in des_graph[node]]]

\* a variant of the loop over the out-edges that does not test the flag
push_active_unflagged(st, act, dsts) ==
    [flags |-> [n \in DesNodes |-> st.flags[n] \/ (n \in Range(dsts) /\ act[n])],
     next  |-> st.next \o SelectSeq(dsts, LAMBDA d : act[d])]

RECURSIVE push_active(_, _, _)
\* the loop of runLoop over the out-edges of the active node, dsts the
\* destinations still to visit: an active destination whose flag is false is
\* flagged and appended; st = [flags, next]
push_active(st, act, dsts) ==
    IF dsts = <<>> THEN st
    ELSE LET dst == Head(dsts)
         IN  IF act[dst] /\ ~st.flags[dst]
             THEN push_active([flags |-> [st.flags EXCEPT ![dst] = TRUE],
                               next  |-> Append(st.next, dst)],
                              act, Tail(dsts))
             ELSE push_active(st, act, Tail(dsts))

\* the end of the loop body: an active node is appended again, the flag of an
\* inactive one is reset; st = [flags, next]
requeue(st, act, node) ==
    IF act[node]
    THEN [flags |-> st.flags, next |-> Append(st.next, node)]
    ELSE [flags |-> [st.flags EXCEPT ![node] = FALSE], next |-> st.next]

\* a variant of the release that leaves the locks as they are
release_none(l) == l

\* finishStep: std::fill(locks.begin(), locks.end(), false)
release(l) == [n \in DOMAIN l |-> FALSE]

\* the pending events after srcObj->simulate(graph, node): the node's own are
\* consumed or not, each destination may receive some
SimulateOutcomes(node) ==
    {[n \in DesNodes |->
        IF n = node THEN n \in S
        ELSE IF n \in des_graph[node] THEN pending[n] \/ n \in S
        ELSE pending[n]] :
     S \in {T \in SUBSET ({node} \cup des_graph[node]) : T = {} \/ sent < MaxEvents}}

\* the state when runLoop reaches its outer loop: the flags of the input nodes
\* are set, initParaMeter has run; the events at the start are at the input
\* nodes
DesInit ==
    \E g \in DesGraphs, inp \in InputNodes :
        /\ des_graph = g
        /\ onWlFlags = [n \in DesNodes |-> n \in Range(inp)]
        /\ nextWorklist = <<>>
        /\ currWorklist = inp
        /\ locks = [n \in DesNodes |-> FALSE]
        /\ step = 0
        /\ numActivities = 0
        /\ wlsize = 0
        /\ activeNode = NoNode
        /\ pending = [n \in DesNodes |-> n \in Range(inp)]
        /\ sent = 0
        /\ des_pc = "outer"
        /\ executed = {}
        /\ aborts = {}
        /\ graph = GraphOf({})
        /\ work = <<>>
        /\ queue = <<>>
        /\ cur = <<>>
        /\ emitted = <<>>
        /\ level = 2
        /\ num = 0
        /\ need_update = TRUE
        /\ max_size = 0
        /\ expanded = <<>>
        /\ AggIdle
        /\ ThrIdle
        /\ SupIdle
        /\ MotIdle
        /\ ClqIdle
        /\ CmpIdle

minerVars == <<graph, work, queue, cur, emitted, level, num, need_update,
               max_size, expanded, aggVars, thrVars, supVars, motVars, clqVars>>

\* the outer loop is entered: beginStep
DesBeginStep ==
    /\ des_pc = "outer"
    /\ currWorklist # <<>>
    /\ numActivities' = 0
    /\ nextWorklist' = <<>>
    /\ wlsize' = Len(currWorklist)
    /\ executed' = {}
    /\ des_pc' = "inner"
    /\ UNCHANGED <<des_graph, locks, currWorklist, onWlFlags, step, activeNode,
                   pending, sent, aborts>>
    /\ UNCHANGED <<minerVars, cmpVars>>

\* the inner loop is entered: the front of currWorklist is taken
DesPop ==
    /\ des_pc = "inner"
    /\ currWorklist # <<>>
    /\ activeNode' = Head(currWorklist)
    /\ currWorklist' = Tail(currWorklist)
    /\ des_pc' = "popped"
    /\ UNCHANGED <<des_graph, locks, nextWorklist, onWlFlags, step, numActivities,
                   wlsize, pending, sent, executed, aborts>>
    /\ UNCHANGED <<minerVars, cmpVars>>

\* abort returned true: the node is appended to nextWorklist
DesAbort ==
    /\ des_pc = "popped"
    /\ abort(activeNode).abort
    /\ locks' = abort(activeNode).locks
    /\ nextWorklist' = Append(nextWorklist, activeNode)
    /\ aborts' = aborts \cup {activeNode}
    /\ activeNode' = NoNode
    /\ des_pc' = "inner"
    /\ UNCHANGED <<des_graph, currWorklist, onWlFlags, step, numActivities,
                   wlsize, pending, sent, executed>>
    /\ UNCHANGED <<minerVars, cmpVars>>

\* abort returned false: the rest of the loop body
DesExecute ==
    /\ des_pc = "popped"
    /\ ~abort(activeNode).abort
    /\ locks' = abort(activeNode).locks
    /\ numActivities' = numActivities + 1
    /\ \E act \in SimulateOutcomes(activeNode) :
          LET st == requeue(push_active([flags |-> onWlFlags, next |-> nextWorklist],
                                        act, SetToSeq(des_graph[activeNode])),
                            act, activeNode)
          IN  /\ pending' = act
              /\ sent' = IF \E n \in {activeNode} \cup des_graph[activeNode] :
                                act[n] /\ (n = activeNode \/ ~pending[n])
                         THEN sent + 1 ELSE sent
              /\ onWlFlags' = st.flags
              /\ nextWorklist' = st.next
    /\ executed' = executed \cup {activeNode}
    /\ aborts' = aborts \ {activeNode}
    /\ activeNode' = NoNode
    /\ des_pc' = "inner"
    /\ UNCHANGED <<des_graph, currWorklist, step, wlsize>>
    /\ UNCHANGED <<minerVars, cmpVars>>

\* the inner loop is left: finishStep
DesFinishStep ==
    /\ des_pc = "inner"
    /\ currWorklist = <<>>
    /\ step' = step + 1
    /\ numActivities' = 0
    /\ currWorklist' = nextWorklist
    /\ nextWorklist' = <<>>
    /\ locks' = release(locks)
    /\ des_pc' = "outer"
    /\ UNCHANGED <<des_graph, onWlFlags, wlsize, activeNode, pending, sent,
                   executed, aborts>>
    /\ UNCHANGED <<minerVars, cmpVars>>

\* the outer loop is left: the simulation has ended
DesEnd ==
    /\ des_pc = "outer"
    /\ currWorklist = <<>>
    /\ des_pc' = "done"
    /\ UNCHANGED <<des_graph, locks, currWorklist, nextWorklist, onWlFlags, step,
                   numActivities, wlsize, activeNode, pending, sent, executed, aborts>>
    /\ UNCHANGED <<minerVars, cmpVars>>

DesNext ==
    \/ DesBeginStep
    \/ DesPop
    \/ DesAbort
    \/ DesExecute
    \/ DesFinishStep
    \/ DesEnd

DesSpec == DesInit /\ [][DesNext]_vars

\* runLoop is serial code: it takes its next step whenever it has one
DesFairSpec == DesSpec /\ WF_vars(DesNext)

---------------------------------------------------------------------------
(* The worklists of runLoop *)

\* both worklists, one after the other
Worklists == currWorklist \o nextWorklist

\* C26: with distinct input nodes, at every point of runLoop every node is at
\* most once on currWorklist and nextWorklist together and the node being
\* processed is on neither; every node on a worklist has its flag set; a node
\* whose flag is set is on a worklist or is the node being processed; a node
\* that was aborted is on a worklist until it is taken again, and a node that
\* was executed in the step and still has pending events is on nextWorklist.
C26_WorklistUnique ==
    /\ \A n \in DesNodes : Copies(Worklists, n) <= 1
    /\ activeNode # NoNode => activeNode \notin Range(Worklists)
    /\ \A k \in DOMAIN Worklists : onWlFlags[Worklists[k]]
    /\ \A n \in DesNodes :
          onWlFlags[n] => (n \in Range(Worklists) \/ n = activeNode)
    /\ \A n \in aborts : n \in Range(Worklists) \/ n = activeNode
    /\ des_pc \in {"inner", "popped"} =>
          \A n \in executed : pending[n] => n \in Range(nextWorklist)

\* in one step a node was executed and appended again, a destination of it
\* was appended, and a third node was aborted and appended
C26_Witness ==
    /\ des_pc = "inner"
    /\ \E n \in executed : pending[n] /\ n \in Range(nextWorklist)
    /\ \E n \in aborts : n \in Range(nextWorklist)
    /\ \E n \in Range(nextWorklist) : n \notin executed /\ n \notin aborts

---------------------------------------------------------------------------
(* The locks of a step *)

\* the node and the destinations of its out-edges
Neighbourhood(n) == {n} \cup des_graph[n]

\* the nodes whose lock is set
Locked == {n \in DesNodes : locks[n]}

\* C27: abort changes no lock when it returns true and sets exactly the locks
\* of the node and of its destinations when it returns false; no lock is set
\* when a step starts; within a step the locked nodes are the neighbourhoods
\* of the nodes executed in it, and the neighbourhoods of two nodes executed
\* in the same step are disjoint.
C27_StepIndependence ==
    /\ \A n \in DesNodes :
          /\ abort(n).abort => abort(n).locks = locks
          /\ ~abort(n).abort =>
                {m \in DesNodes : abort(n).locks[m]} = Locked \cup Neighbourhood(n)
          /\ abort(n).abort <=> (Neighbourhood(n) \cap Locked # {})
    /\ (des_pc = "outer" \/ (des_pc = "inner" /\ Len(currWorklist) = wlsize)) =>
          Locked = {}
    /\ des_pc \in {"inner", "popped"} =>
          /\ Locked = UNION {Neighbourhood(a) : a \in executed}
          /\ \A a \in executed, b \in executed :
                a # b => Neighbourhood(a) \cap Neighbourhood(b) = {}

\* two nodes were executed in one step, one of them with an out-edge, and a
\* third node was aborted in it
C27_Witness ==
    /\ des_pc = "inner"
    /\ Cardinality(executed) = 2
    /\ \E a \in executed : des_graph[a] \ {a} # {}
    /\ \E n \in aborts : n \in Range(nextWorklist)

---------------------------------------------------------------------------
(* Progress of runLoop *)

\* the node that was taken is the first of its step
FirstOfStep == des_pc = "popped" /\ Len(currWorklist) = wlsize - 1

\* C28: the first node taken in a step is not aborted; when the inner loop of
\* a step ends at least one activity has run in it; the inner loop of every
\* step ends; runLoop ends when the simulate calls leave pending events only
\* finitely often; and a node that was aborted is taken again and executed.
C28_DesProgress ==
    /\ [](FirstOfStep => ~abort(activeNode).abort)
    /\ []((des_pc = "inner" /\ currWorklist = <<>>) => numActivities >= 1)
    /\ (des_pc = "inner") ~> (des_pc = "outer")
    /\ <>(des_pc = "done")
    /\ \A n \in DesNodes : (n \in aborts) ~> (n \in executed)

\* a node that was aborted in an earlier step has been taken again and is not
\* aborted this time
C28_Witness ==
    /\ des_pc = "popped"
    /\ step >= 1
    /\ activeNode \in aborts
    /\ ~FirstOfStep
    /\ ~abort(activeNode).abort

---------------------------------------------------------------------------
(* The edge comparison on the whole range of the vertex ids *)

\* the values of a vertex id
Ids == 0 .. (2 ^ IdBits - 1)

\* the edges handed to compare: getEdge asserts that the endpoints differ
IdEdges == {p \in Ids \X Ids : p[1] # p[2]}

CompareInit ==
    \E a \in IdEdges, b \in IdEdges :
        /\ cmp_one = a
        /\ cmp_other = b
        /\ compared = <<>>
        /\ graph = GraphOf({})
        /\ work = <<>>
        /\ queue = <<>>
        /\ cur = <<>>
        /\ emitted = <<>>
        /\ level = 2
        /\ num = 0
        /\ need_update = TRUE
        /\ max_size = 0
        /\ expanded = <<>>
        /\ AggIdle
        /\ ThrIdle
        /\ SupIdle
        /\ MotIdle
        /\ ClqIdle
        /\ DesIdle

\* compare(oneEdge, otherEdge): both arguments are references and are left
\* swapped
CompareCall ==
    /\ compared = <<>>
    /\ compared' = <<compare(cmp_one, cmp_other)>>
    /\ cmp_one' = swap(cmp_one)
    /\ cmp_other' = swap(cmp_other)
    /\ UNCHANGED <<minerVars, desVars>>

CompareNext == CompareCall

CompareSpec == CompareInit /\ [][CompareNext]_vars

\* a is less than b: normalized, then lexicographic
LexLess(a, b) == LexLeq(a, b) /\ Norm(a) # Norm(b)

\* C29: for all vertex ids of the whole range of the id type, compare returns
\* a negative value, zero or a positive value exactly when the normalized
\* first edge is lexicographically less than, equal to or greater than the
\* normalized second edge.
C29_CompareTotalOrder ==
    compared # <<>> =>
        /\ compared[1] < 0 <=> LexLess(cmp_one, cmp_other)
        /\ compared[1] = 0 <=> Norm(cmp_one) = Norm(cmp_other)
        /\ compared[1] > 0 <=> LexLess(cmp_other, cmp_one)

\* two edges were compared whose deciding ids differ by more than an int holds
C29_Witness ==
    /\ compared # <<>>
    /\ \/ cmp_one[1] - cmp_other[1] >= 2 ^ (IdBits - 1)
       \/ cmp_other[1] - cmp_one[1] > 2 ^ (IdBits - 1)
       \/ /\ cmp_one[1] = cmp_other[1]
          /\ \/ cmp_one[2] - cmp_other[2] >= 2 ^ (IdBits - 1)
             \/ cmp_other[2] - cmp_one[2] > 2 ^ (IdBits - 1)

=========================================================================
